---------------------------- MODULE Spec2Model ----------------------------
(***************************************************************************)
(* Model of the citation-overlap record-linkage engine:                    *)
(*   citov/extractor.py   DbExtractor.extractDb / combineOverlaps,         *)
(*                        processDatabase, globalMatcher                   *)
(*   citov/overlapper.py  matchListMaker, getDetails, findGroups,          *)
(*                        getSubgroupNum, subGroupV2, findOverlaps         *)
(*                                                                         *)
(* Encoding of the Python values:                                          *)
(*   - a str that the code indexes or measures (title key, journal key,    *)
(*     one field of the author key) is a sequence of character codes;      *)
(*     digits are the codes 0..9, letters are codes >= 10;                 *)
(*   - an author key "a|b|c|year" is the tuple of its '|'-separated        *)
(*     fields, so that split('|') is the identity and pop() takes the last *)
(*     field; the sentinel "." is the one-field tuple << "." >>;           *)
(*   - a PMID is a TLA+ string (only compared for equality);               *)
(*   - a record id "MED_00001" is the pair <<"MED", 1>>;                   *)
(*   - a bucket "id1;id2" is the sequence <<id1, id2>> (split(';') is the  *)
(*     identity and "';' in bucket" is Len(bucket) >= 2);                  *)
(*   - an insertion-ordered dict used as an ordered set (matchKeyDict) is  *)
(*     the sequence of its keys;                                           *)
(*   - a subgroup id "g.k" is the pair <<g, k>>; the id "." is <<0, -1>>.  *)
(***************************************************************************)
EXTENDS Integers, Sequences, FiniteSets, TLC

(***************************************************************************)
(* Bounds of the model.                                                    *)
(***************************************************************************)
\* most records in one ingested source
MaxRecs == 2
\* most records over all ingested sources
MaxTotal == 4
\* most ids the ingests append to the buckets of one global dict, when a
\* source name may be ingested again
MaxIndexed == 4
\* most overlaps threads started and not yet handled
MaxThreads == 2

(***************************************************************************)
(* Characters and sentinels.                                               *)
(***************************************************************************)
Dot == 46
DotStr == <<Dot>>
NoYear == <<36, 24, 37, 14, 10, 27>>
NoPMID == "NoPMID"
DotPMID == "."
AuthorDot == <<DotStr>>
NoneKey == <<99>>
EmptyStr == <<>>

\* the source tags: dbName[:3].upper() of the DbNames values
Tags == {"MED", "EMB"}

(***************************************************************************)
(* Small helpers.                                                          *)
(***************************************************************************)
Min2(a, b) == IF a <= b THEN a ELSE b
SetMax(S) == CHOOSE x \in S : \A y \in S : y <= x
Range(s) == {s[i] : i \in 1..Len(s)}
Contains(s, x) == \E i \in 1..Len(s) : s[i] = x
IsPrefix(s, t) == Len(s) <= Len(t) /\ \A i \in 1..Len(s) : s[i] = t[i]
\* dict[k] = v on an insertion-ordered set: a key already present keeps its place
AddKey(s, x) == IF Contains(s, x) THEN s ELSE Append(s, x)

RECURSIVE Concat(_)
\* ''.join(list)
Concat(l) == IF l = <<>> THEN <<>> ELSE Head(l) \o Concat(Tail(l))

RECURSIVE SumSeq(_)
SumSeq(l) == IF l = <<>> THEN 0 ELSE Head(l) + SumSeq(Tail(l))

(***************************************************************************)
(* jellyfish.damerau_levenshtein_distance: the unrestricted                *)
(* Damerau-Levenshtein distance (insert, delete, substitute, transpose     *)
(* adjacent), by the Lowrance-Wagner table.  Cell (i, j) of the            *)
(* (m+1) x (n+1) table is entry i*(n+1)+j+1 of the sequence.               *)
(***************************************************************************)
damerau_levenshtein_distance(s, t) ==
    LET m == Len(s)
        n == Len(t)
        RECURSIVE Fill(_)
        Fill(tbl) ==
            IF Len(tbl) = (m + 1) * (n + 1) THEN tbl
            ELSE LET i == Len(tbl) \div (n + 1)
                     j == Len(tbl) % (n + 1)
                     at(x, y) == tbl[x * (n + 1) + y + 1]
                     v == IF i = 0 THEN j
                          ELSE IF j = 0 THEN i
                          ELSE LET cost == IF s[i] = t[j] THEN 0 ELSE 1
                                   base == Min2(Min2(at(i - 1, j) + 1,
                                                     at(i, j - 1) + 1),
                                                at(i - 1, j - 1) + cost)
                                   ks == {x \in 1..(i - 1) : s[x] = t[j]}
                                   ls == {y \in 1..(j - 1) : t[y] = s[i]}
                               IN  IF ks = {} \/ ls = {} THEN base
                                   ELSE LET k1 == SetMax(ks)
                                            l1 == SetMax(ls)
                                        IN  Min2(base,
                                                 at(k1 - 1, l1 - 1)
                                                 + (i - k1 - 1) + 1
                                                 + (j - l1 - 1))
                 IN  Fill(Append(tbl, v))
    IN  IF s = t THEN 0 ELSE Fill(<<>>)[(m + 1) * (n + 1)]

(***************************************************************************)
(* The pairwise score of subGroupV2 (overlapper.py 704-800).  A record is  *)
(* [pmid, authorKey, titleMin, journalKey].  ZeroDivisionError is the      *)
(* value the operators return where Python raises it.                      *)
(***************************************************************************)
ZeroDivisionError == -1
journalWt == 20

\* int(diff / lenSum * weight): the quotient truncated (all operands >= 0);
\* equal to the floating-point result for every lenSum <= 40
IntDiv(diff, lenSum, weight) == (diff * weight) \div lenSum

\* 30 - int(damerau(tOne, tTwo) / (len(tOne) + len(tTwo)) * 30)
TitleMinDiffWeight(tOne, tTwo) ==
    IF Len(tOne) + Len(tTwo) = 0 THEN ZeroDivisionError
    ELSE 30 - IntDiv(damerau_levenshtein_distance(tOne, tTwo),
                     Len(tOne) + Len(tTwo), 30)

\* truth value of a journal key: None and '' are false
Truthy(j) == j # NoneKey /\ j # EmptyStr

JournalKeyDiffWeight(jOne, jTwo) ==
    IF Truthy(jOne) /\ Truthy(jTwo)
    THEN journalWt - IntDiv(damerau_levenshtein_distance(jOne, jTwo),
                           Len(jOne) + Len(jTwo), journalWt)
    ELSE IF Truthy(jOne) \/ Truthy(jTwo) THEN 0
    ELSE journalWt

\* int(year): defined on a non-empty string of digits, ValueError otherwise
IsInt(y) == y # <<>> /\ \A i \in 1..Len(y) : y[i] \in 0..9
RECURSIVE ToInt(_)
ToInt(y) == IF y = <<>> THEN 0 ELSE 10 * ToInt(SubSeq(y, 1, Len(y) - 1)) + y[Len(y)]

\* the year part without the tests of lines 748-753: equal years or nothing
YearDistExact(aOneYear, aTwoYear) == IF aOneYear = aTwoYear THEN 20 ELSE 0

\* the try block of lines 742-759: a ValueError leaves yearDist = 0
YearDist(aOneYear, aTwoYear) ==
    IF aOneYear = aTwoYear THEN 20
    ELSE IF aOneYear = NoYear \/ aTwoYear = NoYear
            \/ aOneYear = DotStr \/ aTwoYear = DotStr THEN 0
    ELSE IF ~IsInt(aOneYear) \/ ~IsInt(aTwoYear) THEN 0
    ELSE IF ToInt(aOneYear) - 1 = ToInt(aTwoYear)
            \/ ToInt(aOneYear) + 1 = ToInt(aTwoYear) THEN 16
    ELSE IF ToInt(aOneYear) - 2 = ToInt(aTwoYear)
            \/ ToInt(aOneYear) + 2 = ToInt(aTwoYear) THEN 12
    ELSE 0

\* list.pop(): the last field, and the list without it
PopYear(a) == a[Len(a)]
PopList(a) == SubSeq(a, 1, Len(a) - 1)

\* factor - int(damerau(authorOne, authorTwo) / (len + len) * factor)
AuthorKeyDiffWeight(authorOne, authorTwo, factor) ==
    IF Len(authorOne) + Len(authorTwo) = 0 THEN ZeroDivisionError
    ELSE factor - IntDiv(damerau_levenshtein_distance(authorOne, authorTwo),
                         Len(authorOne) + Len(authorTwo), factor)

\* lines 789-790, and the exception in place of the weight
Higher(authorKeyDiffWeight, highestScore) ==
    IF authorKeyDiffWeight = ZeroDivisionError THEN ZeroDivisionError
    ELSE IF authorKeyDiffWeight > highestScore THEN authorKeyDiffWeight
    ELSE highestScore

RECURSIVE HighestScore(_, _, _, _)
\* the inner loop of lines 779-791: the best weight of authorOne against
\* every name of aTwoList, starting from highestScore = 0
HighestScore(authorOne, aTwoList, factor, highestScore) ==
    IF aTwoList = <<>> \/ highestScore = ZeroDivisionError THEN highestScore
    ELSE HighestScore(authorOne, Tail(aTwoList), factor,
                      Higher(AuthorKeyDiffWeight(authorOne, Head(aTwoList), factor),
                             highestScore))

\* line 795: authorDist += highestScore
AddScore(authorDist, highestScore) ==
    IF highestScore = ZeroDivisionError THEN ZeroDivisionError
    ELSE authorDist + highestScore

RECURSIVE SplitAuthors(_, _, _, _)
\* the outer loop of lines 776-795: authorDist += highestScore for every
\* name of aOneList
SplitAuthors(aOneList, aTwoList, factor, authorDist) ==
    IF aOneList = <<>> \/ authorDist = ZeroDivisionError THEN authorDist
    ELSE SplitAuthors(Tail(aOneList), aTwoList, factor,
                      AddScore(authorDist,
                               HighestScore(Head(aOneList), aTwoList, factor, 0)))

\* lines 773-775: 30 / len(aOneList) is a float; an author key holds three
\* names or none (extractor.py 357-375), which makes it 10.0 or leaves it 30
Factor(aOneList) == IF Len(aOneList) >= 2 THEN 30 \div Len(aOneList) ELSE 30

\* lines 766-795
CloseOrSplit(authorActualDiff, aOneList, aTwoList) ==
    IF authorActualDiff <= 5 THEN 30 - authorActualDiff
    ELSE SplitAuthors(aOneList, aTwoList, Factor(aOneList), 0)

AuthorDist(aOneList, aTwoList) ==
    CloseOrSplit(damerau_levenshtein_distance(Concat(aOneList), Concat(aTwoList)),
                 aOneList, aTwoList)

\* the PMID test left out: every pair goes to the heuristic
PmidUninformative(pOne, pTwo) == 9999

\* the value of distanceOut after the PMID test of lines 705-710
PmidDistance(pOne, pTwo) ==
    IF pOne = pTwo /\ pOne # NoPMID THEN 100
    ELSE IF pOne = NoPMID \/ pTwo = NoPMID THEN 9999
    ELSE 0

\* the four parts of the heuristic, in the order the code evaluates them
HeuristicParts(one, two) ==
    [title |-> TitleMinDiffWeight(one.titleMin, two.titleMin),
     journal |-> JournalKeyDiffWeight(one.journalKey, two.journalKey),
     year |-> YearDist(PopYear(one.authorKey), PopYear(two.authorKey)),
     author |-> AuthorDist(PopList(one.authorKey), PopList(two.authorKey))]

\* lines 798-800; a part that raised makes the sum raise
SumParts(h) ==
    IF h.title = ZeroDivisionError \/ h.author = ZeroDivisionError
    THEN ZeroDivisionError
    ELSE h.title + h.journal + h.year + h.author

\* the value of the PMID test stored as it is
WithoutHeuristic(pmidDistance, one, two) == pmidDistance

\* lines 712-800: the heuristic replaces the value 9999
WithHeuristic(pmidDistance, one, two) ==
    IF pmidDistance = 9999 THEN SumParts(HeuristicParts(one, two))
    ELSE pmidDistance

\* distanceOut as stored at lines 808-809 for the records one, two
DistanceOut(one, two) == WithHeuristic(PmidDistance(one.pmid, two.pmid), one, two)

(***************************************************************************)
(* The extracted records the sources are drawn from.  Letters: a = 10,     *)
(* b = 11, c = 12; the year "2019" is <<2, 0, 1, 9>>.                      *)
(***************************************************************************)
Y2019 == <<2, 0, 1, 9>>
\* author keys "a|bbb|ccc|2019" and "a|a|a|2019"
AuthABC == <<<<10>>, <<11, 11, 11>>, <<12, 12, 12>>, Y2019>>
AuthAAA == <<<<10>>, <<10>>, <<10>>, Y2019>>
\* title keys "ab" and "ba", journal key "j"
TitleAB == <<10, 11>>
TitleBA == <<11, 10>>
JourJ == <<19>>

Rec(p, a, t, j) == [pmid |-> p, authorKey |-> a, titleMin |-> t, journalKey |-> j]

RecPool ==
    { Rec("222", AuthABC, TitleAB, JourJ),
      Rec(NoPMID, AuthAAA, TitleAB, JourJ),
      Rec("333", AuthABC, TitleBA, NoneKey),
      Rec(NoPMID, AuthorDot, DotStr, NoneKey) }

\* the record lists one source file may hold
RECURSIVE SeqsUpTo(_, _)
SeqsUpTo(S, n) ==
    IF n = 0 THEN {<<>>}
    ELSE LET shorter == SeqsUpTo(S, n - 1)
         IN  shorter \cup {Append(q, x) : q \in {r \in shorter : Len(r) = n - 1},
                                          x \in S}

(***************************************************************************)
(* Key indexing: globalMatcher and the first loop of processDatabase       *)
(* (extractor.py 615-664, 698-748).  A dict of buckets is a function from  *)
(* the keys inserted so far to the sequence of ids of the bucket.          *)
(***************************************************************************)
EmptyDict == <<>>

\* d[key] = id, whether the key is in d or not
Record_overwrite(d, key, id) ==
    IF key \in DOMAIN d THEN [d EXCEPT ![key] = <<id>>]
    ELSE d @@ (key :> <<id>>)

\* if key in d: d[key] = f'{d[key]};{id}'  else: d[key] = id
Record_match(d, key, id) ==
    IF key \in DOMAIN d THEN [d EXCEPT ![key] = Append(@, id)]
    ELSE d @@ (key :> <<id>>)

EmptyIndex ==
    [pmid |-> EmptyDict, author |-> EmptyDict,
     title |-> EmptyDict, journal |-> EmptyDict]

\* one call of globalMatcher; also the four per-source insertions of lines
\* 717-741, which apply the same rule to the per-source dicts
globalMatcher(idHere, rec, idx) ==
    [pmid |-> Record_match(idx.pmid, rec.pmid, idHere),
     author |-> Record_match(idx.author, rec.authorKey, idHere),
     title |-> Record_match(idx.title, rec.titleMin, idHere),
     journal |-> Record_match(idx.journal, rec.journalKey, idHere)]

\* dbId = f'{dbName[:3].upper()}_{lineCount+1:05d}'
DbId(tag, lineCount) == <<tag, lineCount + 1>>

RECURSIVE IndexRows(_, _, _, _)
\* the loop of lines 705-748 over the rows from lineCount on
IndexRows(tag, rows, lineCount, idx) ==
    IF lineCount >= Len(rows) THEN idx
    ELSE IndexRows(tag, rows, lineCount + 1,
                   globalMatcher(DbId(tag, lineCount), rows[lineCount + 1], idx))

(***************************************************************************)
(* Match closure: matchListMaker, getDetails and the loop of findOverlaps  *)
(* (overlapper.py 336-402, 1082-1109).  dbDicts is the value of dbsParsed: *)
(* a sequence of [dbName, procDict] in ingestion order, procDict being the *)
(* sequence of the source's records (the record of id <<tag, n>> is the    *)
(* n-th).                                                                  *)
(***************************************************************************)
RECURSIVE AddAll(_, _)
\* for theIdMatch in bucket.split(';'): matchKeyDict[theIdMatch] = 5
AddAll(matchKeyDict, bucket) ==
    IF bucket = <<>> THEN matchKeyDict
    ELSE IF Contains(matchKeyDict, Head(bucket))
    THEN AddAll(matchKeyDict, Tail(bucket))
    ELSE AddAll(Append(matchKeyDict, Head(bucket)), Tail(bucket))

\* one of the three blocks of matchListMaker: live says the key is no sentinel
MatchBlock(live, dict, key, theId, basisKey, mb) ==
    IF live /\ Len(dict[key]) >= 2
    THEN [matchKeyDict |-> AddAll(mb.matchKeyDict, dict[key]),
          basisDict |-> IF \E i \in 1..Len(dict[key]) : dict[key][i] # theId
                        THEN AddKey(mb.basisDict, basisKey)
                        ELSE mb.basisDict]
    ELSE mb

PmidLive(pmidHere) == pmidHere # NoPMID /\ pmidHere # DotPMID
AuthorLive(authorKeyHere) == authorKeyHere # AuthorDot
TitleLive(titleMinHere) == titleMinHere # DotStr

matchListMaker(pmidHere, authorKeyHere, titleMinHere, pmidD, authorKeyD, titleMinD, theId, mb) ==
    MatchBlock(TitleLive(titleMinHere), titleMinD, titleMinHere, theId, "titleMin",
        MatchBlock(AuthorLive(authorKeyHere), authorKeyD, authorKeyHere, theId,
                   "authorKey",
            MatchBlock(PmidLive(pmidHere), pmidD, pmidHere, theId, "pmid", mb)))

\* extraId in dbDict
InDb(id, db) == id[1] = db.dbName /\ id[2] \in 1..Len(db.procDict)
HasRec(id, dbDicts) == \E k \in 1..Len(dbDicts) : InDb(id, dbDicts[k])
\* the record of the first dbDict that holds the id
RecOf(id, dbDicts) ==
    LET k == CHOOSE x \in 1..Len(dbDicts) :
                 /\ InDb(id, dbDicts[x])
                 /\ \A y \in 1..(x - 1) : ~InDb(id, dbDicts[y])
    IN  dbDicts[k].procDict[id[2]]

\* getDetails: the three keys of an id, '.' for each when no dbDict holds it
getDetails(extraId, dbDicts) ==
    IF HasRec(extraId, dbDicts)
    THEN LET r == RecOf(extraId, dbDicts)
         IN  [pmid |-> r.pmid, authorKey |-> r.authorKey, titleMin |-> r.titleMin]
    ELSE [pmid |-> DotPMID, authorKey |-> AuthorDot, titleMin |-> DotStr]

\* ''.split('|') is [''], the one id no dbDict holds
BlankId == <<"", 0>>
SplitKeyList(matchKeyDict) == IF matchKeyDict = <<>> THEN <<BlankId>> ELSE matchKeyDict

\* line 1104: matchKeyDictLenNew = len(matchKeyDict), and the loop goes on
\* with the ids todo
Counted(todo, mb) == [todo |-> todo, mb |-> mb, lenNew |-> Len(mb.matchKeyDict)]

\* lines 1097-1103: the keys of extraId are matched
Visit(extraId, d, gidx, mb) ==
    matchListMaker(d.pmid, d.authorKey, d.titleMin, gidx.pmid, gidx.author,
                   gidx.title, extraId, mb)

\* one iteration of the for loop of lines 1094-1104; p holds the ids still to
\* visit (todo), matchKeyDict and basisDict (mb), matchKeyDictLenNew (lenNew)
PassStep(medId, dbDicts, gidx, p) ==
    IF Head(p.todo) # medId
    THEN Counted(Tail(p.todo),
                 Visit(Head(p.todo), getDetails(Head(p.todo), dbDicts), gidx, p.mb))
    ELSE [p EXCEPT !.todo = Tail(@)]

RECURSIVE ExtendPass(_, _, _, _)
\* the for loop of lines 1094-1104
ExtendPass(medId, dbDicts, gidx, p) ==
    IF p.todo = <<>> THEN p
    ELSE ExtendPass(medId, dbDicts, gidx, PassStep(medId, dbDicts, gidx, p))

\* the loop left after its first pass, whatever the pass added
LoopTestOnce(p, medId, dbDicts, gidx, lenLast, passes) ==
    [matchKeyDict |-> p.mb.matchKeyDict, basisDict |-> p.mb.basisDict,
     passes |-> passes]

RECURSIVE ExtendLoop(_, _, _, _, _, _, _, _)
\* lines 1105-1109: the loop ends when a pass leaves the length unchanged
LoopTest(p, medId, dbDicts, gidx, lenLast, passes) ==
    IF lenLast = p.lenNew
    THEN [matchKeyDict |-> p.mb.matchKeyDict, basisDict |-> p.mb.basisDict,
          passes |-> passes]
    ELSE ExtendLoop(SplitKeyList(p.mb.matchKeyDict), medId, dbDicts, gidx,
                    p.mb, p.lenNew, p.lenNew, passes)

\* while end == 0 (lines 1093-1109); passes counts the executions of the body
ExtendLoop(matchKeyList, medId, dbDicts, gidx, mb, lenLast, lenNew, passes) ==
    LoopTest(ExtendPass(medId, dbDicts, gidx,
                        [todo |-> matchKeyList, mb |-> mb, lenNew |-> lenNew]),
             medId, dbDicts, gidx, lenLast, passes + 1)

\* lines 1088-1092: the loop starts from the matches of medId itself
CloseFrom(medId, dbDicts, gidx, mb) ==
    ExtendLoop(SplitKeyList(mb.matchKeyDict), medId, dbDicts, gidx, mb,
               Len(mb.matchKeyDict), 0, 0)

\* lines 1082-1109: the members and the basis found for the seed medId
MatchClosure(medId, rec, dbDicts, gidx) ==
    CloseFrom(medId, dbDicts, gidx,
              matchListMaker(rec.pmid, rec.authorKey, rec.titleMin, gidx.pmid,
                             gidx.author, gidx.title, medId,
                             [matchKeyDict |-> <<>>, basisDict |-> <<>>]))

(***************************************************************************)
(* Group numbers: findGroups (overlapper.py 405-439).                      *)
(***************************************************************************)
\* the order of the tag strings under Python's str comparison
TagRank(tag) == CASE tag = "" -> 0 [] tag = "EMB" -> 1 [] tag = "MED" -> 2
                  [] tag = "SCO" -> 3
\* id strings compare by tag, then by the zero-padded line number
IdLess(x, y) == \/ TagRank(x[1]) < TagRank(y[1])
                \/ x[1] = y[1] /\ x[2] < y[2]

RECURSIVE SortedIds(_)
\* sorted(matchKeyDict.keys())
SortedIds(ids) ==
    IF ids = <<>> THEN <<>>
    ELSE LET rest == SortedIds(Tail(ids))
             x == Head(ids)
             n == Cardinality({i \in 1..Len(rest) : IdLess(rest[i], x)})
         IN  SubSeq(rest, 1, n) \o <<x>> \o SubSeq(rest, n + 1, Len(rest))

\* the keys joined in the order of the dict, unsorted
MatchKeyJoinUnsorted(matchKeyDict) == matchKeyDict

\* ';'.join(sorted(matchKeyDict.keys())): the key of the group memo
MatchKeyJoinAll(matchKeyDict) == SortedIds(matchKeyDict)

\* matchGroupOut = '.' is the number 0
NoGroup == 0

\* findGroups returning the counter it was given: matchCountHere += 1 is lost
findGroupsCountLost(theId, matchKeyDict, matchCountHere, matchGroup) ==
    IF Len(matchKeyDict) > 1
    THEN IF SortedIds(matchKeyDict) \in DOMAIN matchGroup
         THEN [grouped |-> TRUE, matchGroupOut |-> matchGroup[SortedIds(matchKeyDict)],
               matchCountHere |-> matchCountHere, matchGroup |-> matchGroup]
         ELSE [grouped |-> TRUE, matchGroupOut |-> matchCountHere + 1,
               matchCountHere |-> matchCountHere,
               matchGroup |-> matchGroup @@ (SortedIds(matchKeyDict) :> matchCountHere + 1)]
    ELSE [grouped |-> FALSE, matchGroupOut |-> 0,
          matchCountHere |-> matchCountHere, matchGroup |-> matchGroup]

findGroups(theId, matchKeyDict, matchCountHere, matchGroup) ==
    IF Len(matchKeyDict) > 1
    THEN LET key == MatchKeyJoinAll(matchKeyDict)
         IN  IF key \in DOMAIN matchGroup
             THEN [grouped |-> TRUE, matchGroupOut |-> matchGroup[key],
                   matchCountHere |-> matchCountHere, matchGroup |-> matchGroup]
             ELSE [grouped |-> TRUE, matchGroupOut |-> matchCountHere + 1,
                   matchCountHere |-> matchCountHere + 1,
                   matchGroup |-> matchGroup @@ (key :> matchCountHere + 1)]
    ELSE [grouped |-> FALSE, matchGroupOut |-> NoGroup,
          matchCountHere |-> matchCountHere, matchGroup |-> matchGroup]

(***************************************************************************)
(* Subgroups: getSubgroupNum and subGroupV2 (overlapper.py 631-848).       *)
(* The four dicts travel together in one record st:                        *)
(*   idToGroup     id -> member list of its component (idGroup)            *)
(*   idToSubgroup  id -> subgroup id                                       *)
(*   subgroupToId  subgroup id -> member list                              *)
(*   idToDistance  id -> (id -> score)                                     *)
(* err names the exception raised, "none" when the call returns.           *)
(***************************************************************************)
DotSub == <<0, -1>>
Unbound == <<-1, -1>>

\* d[k] = v
Put(d, k, v) == IF k \in DOMAIN d THEN [d EXCEPT ![k] = v] ELSE d @@ (k :> v)

\* the subgroup id with the counter left as it is
getSubgroupNumStuck(matchGroupOut, groupNum) ==
    [nextGroup |-> <<matchGroupOut, groupNum>>, groupNum |-> groupNum]

\* nextGroup = f'{matchGroupOut}.{groupNum}'
getSubgroupNum(matchGroupOut, groupNum) ==
    [nextGroup |-> <<matchGroupOut, groupNum>>, groupNum |-> groupNum + 1]

RECURSIVE ResetDistance(_, _)
\* lines 685-686: idToDistance[idName] = {}
ResetDistance(idList, idToDistance) ==
    IF idList = <<>> THEN idToDistance
    ELSE ResetDistance(Tail(idList), Put(idToDistance, Head(idList), EmptyDict))

RECURSIVE SetGroup(_, _, _)
\* line 675: idToGroup[idName] = idGroup
SetGroup(idList, idGroup, idToGroup) ==
    IF idList = <<>> THEN idToGroup
    ELSE SetGroup(Tail(idList), idGroup, Put(idToGroup, Head(idList), idGroup))

\* lines 808-809: the score is stored under both ids; fd holds err and
\* idToDistance
StorePair(fd, idNameOne, idNameTwo, distanceOut) ==
    IF distanceOut = ZeroDivisionError
    THEN [fd EXCEPT !.err = "ZeroDivisionError"]
    ELSE [fd EXCEPT !.idToDistance =
            LET d1 == Put(@, idNameOne, Put(@[idNameOne], idNameTwo, distanceOut))
            IN  Put(d1, idNameTwo, Put(d1[idNameTwo], idNameOne, distanceOut))]

RECURSIVE FindDistances(_, _, _, _)
\* lines 690-809 over the pairs numbered k = (one - 1) * n + (two - 1)
FindDistances(idList, dbDicts, k, fd) ==
    LET n == Len(idList)
        idNameOne == idList[(k \div n) + 1]
        idNameTwo == idList[(k % n) + 1]
    IN  IF k >= n * n \/ fd.err # "none" THEN fd
        ELSE FindDistances(idList, dbDicts, k + 1,
               IF idNameTwo \notin DOMAIN fd.idToDistance[idNameOne]
                  /\ idNameOne # idNameTwo
               THEN StorePair(fd, idNameOne, idNameTwo,
                              DistanceOut(RecOf(idNameOne, dbDicts),
                                          RecOf(idNameTwo, dbDicts)))
               ELSE fd)

\* subgroupToId[nextGroup] = f'{subgroupToId[nextGroup]};{idName}'
JoinMember(subgroupToId, nextGroup, idName) ==
    [subgroupToId EXCEPT ![nextGroup] = Append(@, idName)]

RECURSIVE FindTheGroups(_, _, _, _, _)
\* lines 812-839 over the pairs numbered k; g holds idToSubgroup,
\* subgroupToId, nextGroup and groupNum
FindTheGroups(idList, matchGroupOut, dist, k, g) ==
    LET n == Len(idList)
        idNameOne == idList[(k \div n) + 1]
        idNameTwo == idList[(k % n) + 1]
    IN  IF k >= n * n \/ g.err # "none" THEN g
        ELSE IF idNameOne = idNameTwo
        THEN FindTheGroups(idList, matchGroupOut, dist, k + 1, g)
        ELSE IF idNameOne \in DOMAIN g.idToSubgroup
                /\ idNameTwo \in DOMAIN g.idToSubgroup
        THEN FindTheGroups(idList, matchGroupOut, dist, k + 1, g)
        ELSE IF dist[idNameOne][idNameTwo] >= 90
        THEN FindTheGroups(idList, matchGroupOut, dist, k + 1,
               IF idNameOne \in DOMAIN g.idToSubgroup
               THEN IF g.nextGroup = Unbound
                    THEN [g EXCEPT !.err = "UnboundLocalError"]
                    ELSE [g EXCEPT
                          !.idToSubgroup = Put(@, idNameTwo, g.idToSubgroup[idNameOne]),
                          !.subgroupToId = JoinMember(@, g.nextGroup, idNameTwo)]
               ELSE IF idNameTwo \in DOMAIN g.idToSubgroup
               THEN IF g.nextGroup = Unbound
                    THEN [g EXCEPT !.err = "UnboundLocalError"]
                    ELSE [g EXCEPT
                          !.idToSubgroup = Put(@, idNameOne, g.idToSubgroup[idNameTwo]),
                          !.subgroupToId = JoinMember(@, g.nextGroup, idNameOne)]
               ELSE LET s == getSubgroupNum(matchGroupOut, g.groupNum)
                    IN  [g EXCEPT
                          !.nextGroup = s.nextGroup,
                          !.groupNum = s.groupNum,
                          !.subgroupToId = Put(@, s.nextGroup, <<idNameOne, idNameTwo>>),
                          !.idToSubgroup = Put(Put(@, idNameOne, s.nextGroup),
                                               idNameTwo, s.nextGroup)])
        ELSE FindTheGroups(idList, matchGroupOut, dist, k + 1, g)

RECURSIVE AssignRemaining(_, _, _)
\* lines 842-846: every id still without a subgroup gets its own
AssignRemaining(todo, matchGroupOut, g) ==
    IF todo = <<>> THEN g
    ELSE IF Head(todo) \in DOMAIN g.idToSubgroup
    THEN AssignRemaining(Tail(todo), matchGroupOut, g)
    ELSE LET s == getSubgroupNum(matchGroupOut, g.groupNum)
         IN  AssignRemaining(Tail(todo), matchGroupOut,
               [g EXCEPT !.nextGroup = s.nextGroup,
                         !.groupNum = s.groupNum,
                         !.idToSubgroup = Put(@, Head(todo), s.nextGroup),
                         !.subgroupToId = Put(@, s.nextGroup, <<Head(todo)>>)])

\* what subGroupV2 leaves in the four dicts, or the exception it raised
SubGroupResult(idList, st, fd, g) ==
    IF fd.err # "none" THEN [st EXCEPT !.err = fd.err]
    ELSE IF g.err # "none" THEN [st EXCEPT !.err = g.err]
    ELSE [st EXCEPT !.idToGroup = SetGroup(idList, idList, @),
                    !.idToSubgroup = g.idToSubgroup,
                    !.subgroupToId = g.subgroupToId,
                    !.idToDistance = fd.idToDistance]

\* the pass started with the ids of the list taken as unassigned
FindSubgroupsAfresh(idList, matchGroupOut, st, fd) ==
    SubGroupResult(idList, st, fd,
        AssignRemaining(idList, matchGroupOut,
            FindTheGroups(idList, matchGroupOut, fd.idToDistance, 0,
                [err |-> fd.err,
                 idToSubgroup |-> [id \in DOMAIN st.idToSubgroup \ Range(idList)
                                      |-> st.idToSubgroup[id]],
                 subgroupToId |-> st.subgroupToId,
                 nextGroup |-> Unbound, groupNum |-> 0])))

\* lines 811-846 on the distances fd
FindSubgroups(idList, matchGroupOut, st, fd) ==
    SubGroupResult(idList, st, fd,
        AssignRemaining(idList, matchGroupOut,
            FindTheGroups(idList, matchGroupOut, fd.idToDistance, 0,
                [err |-> fd.err, idToSubgroup |-> st.idToSubgroup,
                 subgroupToId |-> st.subgroupToId,
                 nextGroup |-> Unbound, groupNum |-> 0])))

subGroupV2(idList, dbDicts, matchGroupOut, st) ==
    IF \E i \in 1..Len(idList) : ~HasRec(idList[i], dbDicts)
    THEN [st EXCEPT !.err = "KeyError"]
    ELSE FindSubgroups(idList, matchGroupOut, st,
             FindDistances(idList, dbDicts, 0,
                 [err |-> "none",
                  idToDistance |-> ResetDistance(idList, st.idToDistance)]))

(***************************************************************************)
(* Annotation of one record: lines 1128-1200 of findOverlaps.              *)
(***************************************************************************)
\* dbAbbrs of lines 1070-1072: the tag of the first id of every non-empty
\* dbDict, then 'ONE'
RECURSIVE DbAbbrs(_)
DbAbbrs(dbDicts) ==
    IF dbDicts = <<>> THEN <<"ONE">>
    ELSE IF Head(dbDicts).procDict # <<>>
    THEN <<Head(dbDicts).dbName>> \o DbAbbrs(Tail(dbDicts))
    ELSE DbAbbrs(Tail(dbDicts))

\* list(dbDicts.keys()) + ['First']
DbDictsNames(dbDicts) == [i \in 1..Len(dbDicts) |-> dbDicts[i].dbName] \o <<"First">>

RECURSIVE Annotated(_, _, _)
\* f'{idName}({idToDistance[medId][idName]})' for every listed id but medId
Annotated(ids, medId, dist) ==
    IF ids = <<>> THEN <<>>
    ELSE IF Head(ids) # medId
    THEN <<[id |-> Head(ids), score |-> dist[medId][Head(ids)]]>>
         \o Annotated(Tail(ids), medId, dist)
    ELSE Annotated(Tail(ids), medId, dist)

\* matchSub.count(key): the tag occurs once in every listed id of that source
CountKey(matchSub, key) == Cardinality({i \in 1..Len(matchSub) : matchSub[i].id[1] = key})

\* stats[key] of lines 1159-1167
Stat(matchSub, key, dbAbbr) == CountKey(matchSub, key) + (IF key = dbAbbr THEN 1 ELSE 0)

\* lines 1171-1176: 'N' when a key before dbAbbr in dbAbbrs occurs in matchSub
MainRecord(matchSub, dbAbbr, dbAbbrs) ==
    LET stop == IF Contains(dbAbbrs, dbAbbr)
                THEN CHOOSE i \in 1..Len(dbAbbrs) :
                        dbAbbrs[i] = dbAbbr /\ \A j \in 1..(i - 1) : dbAbbrs[j] # dbAbbr
                ELSE Len(dbAbbrs) + 1
    IN  IF \E i \in 1..(stop - 1) : CountKey(matchSub, dbAbbrs[i]) > 0
        THEN "N" ELSE "Y"

\* the output row of medId; Group None is NoGroup, Subgrp is the number after
\* the point ('0' for the subgroup id '.')
OutputRecord(medId, rec, dbAbbr, dbDicts, st) ==
    LET matchSubGroupOut == st.idToSubgroup[medId]
        matchSub == Annotated(st.subgroupToId[matchSubGroupOut], medId,
                              st.idToDistance)
        match == Annotated(st.idToGroup[medId], medId, st.idToDistance)
        dbAbbrs == DbAbbrs(dbDicts)
        names == DbDictsNames(dbDicts)
        stats == [i \in 1..Len(dbAbbrs) |-> Stat(matchSub, dbAbbrs[i], dbAbbr)]
    IN  [Paper_ID |-> medId,
         PMID |-> rec.pmid,
         Group |-> IF matchSubGroupOut = DotSub THEN NoGroup ELSE matchSubGroupOut[1],
         Subgrp |-> IF matchSubGroupOut = DotSub THEN 0 ELSE matchSubGroupOut[2],
         Grp_Size |-> SumSeq(stats),
         Similar_Records |-> match,
         Similarity |-> matchSub,
         Counts |-> [i \in 1..Min2(Len(names), Len(stats)) |->
                        [name |-> names[i], val |-> stats[i]]],
         MainRecord |-> MainRecord(matchSub, dbAbbr, dbAbbrs)]

\* the test of line 1081 without the source tag: every record with a
\* subgroup is passed over
RecomputeUnlessSeen(dbAbbr, medId, idToSubgroup) == medId \notin DOMAIN idToSubgroup

(***************************************************************************)
(* One iteration of the loop of findOverlaps (lines 1074-1200) for the     *)
(* record medId of the source dbAbbr.  st holds the dicts combineOverlaps  *)
(* passes in, with matchGroupNew and globalmatchCount.                     *)
(***************************************************************************)
\* line 1081
Recompute(dbAbbr, medId, idToSubgroup) ==
    dbAbbr # "MED" \/ medId \notin DOMAIN idToSubgroup

\* a record with no match given a group and a subgroup of its own
GroupedSingleton(medId, matchKeyDict, dbDicts, fg, st) ==
    IF fg.grouped
    THEN subGroupV2(matchKeyDict, dbDicts, fg.matchGroupOut,
                    [st EXCEPT !.globalmatchCount = fg.matchCountHere,
                               !.matchGroupNew = fg.matchGroup])
    ELSE [st EXCEPT !.globalmatchCount = fg.matchCountHere + 1,
                    !.matchGroupNew = fg.matchGroup,
                    !.idToSubgroup = Put(@, medId, <<fg.matchCountHere + 1, 0>>),
                    !.subgroupToId = Put(@, <<fg.matchCountHere + 1, 0>>, <<medId>>),
                    !.idToGroup = Put(@, medId, <<medId>>)]

\* lines 1113-1126 on the result fg of findGroups
Grouped(medId, matchKeyDict, dbDicts, fg, st) ==
    IF fg.grouped
    THEN subGroupV2(matchKeyDict, dbDicts, fg.matchGroupOut,
                    [st EXCEPT !.globalmatchCount = fg.matchCountHere,
                               !.matchGroupNew = fg.matchGroup])
    ELSE [st EXCEPT !.globalmatchCount = fg.matchCountHere,
                    !.matchGroupNew = fg.matchGroup,
                    !.idToSubgroup = Put(@, medId, DotSub),
                    !.idToGroup = Put(@, medId, <<>>)]

\* lines 1111-1112 on the closure c
GroupClosure(medId, dbDicts, c, st) ==
    Grouped(medId, c.matchKeyDict, dbDicts,
            findGroups(medId, c.matchKeyDict, st.globalmatchCount, st.matchGroupNew),
            st)

\* lines 1081-1126
AssignGroups(medId, rec, dbAbbr, dbDicts, gidx, st) ==
    IF Recompute(dbAbbr, medId, st.idToSubgroup)
    THEN GroupClosure(medId, dbDicts, MatchClosure(medId, rec, dbDicts, gidx), st)
    ELSE st

(***************************************************************************)
(* The final sort of combineOverlaps (extractor.py 262-265): a stable sort *)
(* by (Group, Subgrp) with the rows without a group last.                  *)
(***************************************************************************)
RowLess(x, y) ==
    \/ x.Group # NoGroup /\ y.Group = NoGroup
    \/ x.Group # NoGroup /\ y.Group # NoGroup /\ x.Group < y.Group
    \/ x.Group = y.Group /\ x.Subgrp < y.Subgrp

RECURSIVE sort_values(_)
sort_values(rows) ==
    IF rows = <<>> THEN <<>>
    ELSE LET rest == sort_values(SubSeq(rows, 1, Len(rows) - 1))
             x == rows[Len(rows)]
             n == Cardinality({i \in 1..Len(rest) : ~RowLess(x, rest[i])})
         IN  SubSeq(rest, 1, n) \o <<x>> \o SubSeq(rest, n + 1, Len(rest))

(***************************************************************************)
(* The two nested loops of combineOverlaps and findOverlaps (extractor.py  *)
(* 252-258, overlapper.py 1074-1201) as a computation on a record run:     *)
(* the position in dbDicts (dbCursor) and in its procDict (recCursor), the *)
(* dicts st and the rows appended so far (records).                        *)
(***************************************************************************)
\* the values combineOverlaps gives its locals (extractor.py 238-250)
InitMatchGroup == EmptyDict
InitIdToGroup == EmptyDict
InitIdToSubgroup == EmptyDict
InitSubgroupToId == (DotSub :> <<>>)
InitIdToDistance == EmptyDict
InitMatchCount == 0

InitRun ==
    [dbCursor |-> 1, recCursor |-> 1, records |-> <<>>,
     st |-> [err |-> "none", matchGroupNew |-> InitMatchGroup,
             globalmatchCount |-> InitMatchCount, idToGroup |-> InitIdToGroup,
             idToSubgroup |-> InitIdToSubgroup, subgroupToId |-> InitSubgroupToId,
             idToDistance |-> InitIdToDistance]]

\* idToDistance[medId][idName] is defined for every listed id but medId
HasScores(ids, medId, dist) ==
    \A i \in 1..Len(ids) :
        ids[i] # medId => medId \in DOMAIN dist /\ ids[i] \in DOMAIN dist[medId]

\* the lookups of lines 1129-1156 find their keys
CanAnnotate(medId, st) ==
    /\ st.idToSubgroup[medId] \in DOMAIN st.subgroupToId
    /\ HasScores(st.subgroupToId[st.idToSubgroup[medId]], medId, st.idToDistance)
    /\ HasScores(st.idToGroup[medId], medId, st.idToDistance)

\* lines 1128-1200: the row of medId is appended, unless the call has raised
\* the loop going on to the next record, with no row, for a record a group
\* computed earlier already holds
RecordedUnlessSeen(medId, rec, dbAbbr, dbDicts, run, st) ==
    IF st.err # "none" THEN [run EXCEPT !.st = st]
    ELSE IF ~CanAnnotate(medId, st) THEN [run EXCEPT !.st = [st EXCEPT !.err = "KeyError"]]
    ELSE IF medId \in DOMAIN run.st.idToSubgroup
    THEN [run EXCEPT !.st = st, !.recCursor = @ + 1]
    ELSE [run EXCEPT !.st = st,
                     !.recCursor = @ + 1,
                     !.records = Append(@, OutputRecord(medId, rec, dbAbbr, dbDicts, st))]

Recorded(medId, rec, dbAbbr, dbDicts, run, st) ==
    IF st.err # "none" THEN [run EXCEPT !.st = st]
    ELSE IF ~CanAnnotate(medId, st) THEN [run EXCEPT !.st = [st EXCEPT !.err = "KeyError"]]
    ELSE [run EXCEPT !.st = st,
                     !.recCursor = @ + 1,
                     !.records = Append(@, OutputRecord(medId, rec, dbAbbr, dbDicts, st))]

\* one iteration of the loop of findOverlaps on the record medId
FindOverlapsAt(medId, rec, dbAbbr, dbDicts, gidx, run) ==
    Recorded(medId, rec, dbAbbr, dbDicts, run,
             AssignGroups(medId, rec, dbAbbr, dbDicts, gidx, run.st))

\* the next iteration; past the last record findOverlaps returns and the
\* loop of line 252 goes on with the next source
RunStep(dbDicts, gidx, run) ==
    IF run.recCursor > Len(dbDicts[run.dbCursor].procDict)
    THEN [run EXCEPT !.dbCursor = @ + 1, !.recCursor = 1]
    ELSE FindOverlapsAt(DbId(dbDicts[run.dbCursor].dbName, run.recCursor - 1),
                        dbDicts[run.dbCursor].procDict[run.recCursor],
                        dbDicts[run.dbCursor].dbName, dbDicts, gidx, run)

RECURSIVE RunAll(_, _, _)
RunAll(dbDicts, gidx, run) ==
    IF run.dbCursor > Len(dbDicts) \/ run.st.err # "none" THEN run
    ELSE RunAll(dbDicts, gidx, RunStep(dbDicts, gidx, run))

\* lines 262-268: the sorted table, or the exception; a frame without rows
\* has no column 'Group' to sort by
Returned(run) ==
    IF run.st.err # "none" THEN [err |-> run.st.err, df |-> <<>>]
    ELSE IF run.records = <<>> THEN [err |-> "KeyError", df |-> <<>>]
    ELSE [err |-> "none", df |-> sort_values(run.records)]

\* combineOverlaps on the sources dbDicts with the global dicts gidx
combineOverlaps(dbDicts, gidx) == Returned(RunAll(dbDicts, gidx, InitRun))

(***************************************************************************)
(* State.                                                                  *)
(*   DbExtractor fields: the four global dicts, dbsParsed, dfOverlaps      *)
(*     (None is the empty sequence: a returned table always has rows).     *)
(*   processDatabase: the four per-source dicts of its latest call.        *)
(*   combineOverlaps: its locals while it runs (pc = "overlaps"), with     *)
(*     dbCursor / recCursor the position of the two nested loops.          *)
(*   raised: the exception that ended the latest combineOverlaps.          *)
(*   stale: an ingest happened since dfOverlaps was last assigned.         *)
(*   CiteOverlapGUI: the overlaps threads started that have not run yet,   *)
(*     the results emitted and queued for the handler, the data of the     *)
(*     overlaps sheet and the status bar message.                          *)
(***************************************************************************)
VARIABLES globalPmidDict, globalAuthorKeyDict, globalTitleMinDict,
          globalJournalKeyDict, dbsParsed, dfOverlaps,
          pmidDict, authorKeyDict, titleMinDict, journalKeyDict,
          pc, dbCursor, recCursor, records, matchGroupNew, globalmatchCount,
          idToGroup, idToSubgroup, subgroupToId, idToDistance,
          raised, stale,
          overlapsThread, result, overlapsData, statusBarMsg

globals == <<globalPmidDict, globalAuthorKeyDict, globalTitleMinDict,
             globalJournalKeyDict>>
perSource == <<pmidDict, authorKeyDict, titleMinDict, journalKeyDict>>
locals == <<records, matchGroupNew, globalmatchCount, idToGroup, idToSubgroup,
            subgroupToId, idToDistance>>
gui == <<overlapsThread, result, overlapsData, statusBarMsg>>
vars == <<globals, dbsParsed, dfOverlaps, perSource, pc, dbCursor, recCursor,
          locals, raised, stale, gui>>

GlobalIndex ==
    [pmid |-> globalPmidDict, author |-> globalAuthorKeyDict,
     title |-> globalTitleMinDict, journal |-> globalJournalKeyDict]

\* the locals as they enter, but for the rows, which are kept
FreshLocalsKeepRecords ==
    /\ records' = records
    /\ matchGroupNew' = InitMatchGroup
    /\ globalmatchCount' = InitMatchCount
    /\ idToGroup' = InitIdToGroup
    /\ idToSubgroup' = InitIdToSubgroup
    /\ subgroupToId' = InitSubgroupToId
    /\ idToDistance' = InitIdToDistance

\* the locals as they enter, but for the memo of the groups and its counter,
\* which are kept
FreshLocalsKeepMemo ==
    /\ records' = <<>>
    /\ matchGroupNew' = matchGroupNew
    /\ globalmatchCount' = globalmatchCount
    /\ idToGroup' = InitIdToGroup
    /\ idToSubgroup' = InitIdToSubgroup
    /\ subgroupToId' = InitSubgroupToId
    /\ idToDistance' = InitIdToDistance

\* the locals of combineOverlaps as it enters (extractor.py 238-250)
FreshLocals ==
    /\ records' = <<>>
    /\ matchGroupNew' = InitMatchGroup
    /\ globalmatchCount' = InitMatchCount
    /\ idToGroup' = InitIdToGroup
    /\ idToSubgroup' = InitIdToSubgroup
    /\ subgroupToId' = InitSubgroupToId
    /\ idToDistance' = InitIdToDistance

\* DbExtractor.__init__ (extractor.py 129-140)
Init ==
    /\ globalPmidDict = EmptyDict
    /\ globalAuthorKeyDict = EmptyDict
    /\ globalTitleMinDict = EmptyDict
    /\ globalJournalKeyDict = EmptyDict
    /\ dbsParsed = <<>>
    /\ dfOverlaps = <<>>
    /\ pmidDict = EmptyDict
    /\ authorKeyDict = EmptyDict
    /\ titleMinDict = EmptyDict
    /\ journalKeyDict = EmptyDict
    /\ pc = "idle"
    /\ dbCursor = 0
    /\ recCursor = 0
    /\ records = <<>>
    /\ matchGroupNew = InitMatchGroup
    /\ globalmatchCount = InitMatchCount
    /\ idToGroup = InitIdToGroup
    /\ idToSubgroup = InitIdToSubgroup
    /\ subgroupToId = InitSubgroupToId
    /\ idToDistance = InitIdToDistance
    /\ raised = "none"
    /\ stale = TRUE
    /\ overlapsThread = 0
    /\ result = <<>>
    /\ overlapsData = <<>>
    /\ statusBarMsg = ""

DbNamesOf(dbDicts) == {dbDicts[i].dbName : i \in 1..Len(dbDicts)}
TotalRecords(dbDicts) == SumSeq([i \in 1..Len(dbDicts) |-> Len(dbDicts[i].procDict)])

\* self.dbsParsed[dbName] = procDict: a new key goes last, a key already
\* present keeps its place
SetParsed(dbDicts, dbName, procDict) ==
    IF dbName \in DbNamesOf(dbDicts)
    THEN [i \in 1..Len(dbDicts) |->
            IF dbDicts[i].dbName = dbName
            THEN [dbName |-> dbName, procDict |-> procDict] ELSE dbDicts[i]]
    ELSE Append(dbDicts, [dbName |-> dbName, procDict |-> procDict])

(***************************************************************************)
(* DbExtractor.extractDb (extractor.py 161-226) with processDatabase: the  *)
(* rows of one source file are indexed and stored under the source name.   *)
(***************************************************************************)
ExtractDb(dbName, rows) ==
    /\ pc = "idle"
    /\ LET g == IndexRows(dbName, rows, 0, GlobalIndex)
           p == IndexRows(dbName, rows, 0, EmptyIndex)
       IN  /\ globalPmidDict' = g.pmid
           /\ globalAuthorKeyDict' = g.author
           /\ globalTitleMinDict' = g.title
           /\ globalJournalKeyDict' = g.journal
           /\ pmidDict' = p.pmid
           /\ authorKeyDict' = p.author
           /\ titleMinDict' = p.title
           /\ journalKeyDict' = p.journal
    /\ dbsParsed' = SetParsed(dbsParsed, dbName, rows)
    /\ stale' = TRUE
    /\ UNCHANGED <<dfOverlaps, pc, dbCursor, recCursor, locals, raised>>

(***************************************************************************)
(* DbExtractor.combineOverlaps (extractor.py 228-268), one action per      *)
(* step: entry, one record of findOverlaps, the end of one source's loop,  *)
(* and the sort that ends it.                                              *)
(***************************************************************************)
\* lines 236-237: nothing parsed, None is returned
CombineOverlapsNone ==
    /\ pc = "idle"
    /\ dbsParsed = <<>>
    /\ raised' = "none"
    /\ UNCHANGED <<globals, dbsParsed, dfOverlaps, perSource, pc, dbCursor,
                   recCursor, locals, stale, gui>>

\* lines 238-250
CombineOverlapsBegin ==
    /\ pc = "idle"
    /\ dbsParsed # <<>>
    /\ pc' = "overlaps"
    /\ dbCursor' = 1
    /\ recCursor' = 1
    /\ FreshLocals
    /\ raised' = "none"
    /\ UNCHANGED <<globals, dbsParsed, dfOverlaps, perSource, stale, gui>>

\* the exception leaves combineOverlaps: its locals are gone
Raise(e) ==
    /\ pc' = "idle"
    /\ raised' = e
    /\ dbCursor' = 0
    /\ recCursor' = 0
    /\ FreshLocals

\* the loops of combineOverlaps at their present position
CurrentRun ==
    [dbCursor |-> dbCursor, recCursor |-> recCursor, records |-> records,
     st |-> [err |-> "none", matchGroupNew |-> matchGroupNew,
             globalmatchCount |-> globalmatchCount, idToGroup |-> idToGroup,
             idToSubgroup |-> idToSubgroup, subgroupToId |-> subgroupToId,
             idToDistance |-> idToDistance]]

\* the loops go on from run, or the exception leaves combineOverlaps
SetRun(run) ==
    IF run.st.err # "none"
    THEN Raise(run.st.err)
    ELSE /\ dbCursor' = run.dbCursor
         /\ recCursor' = run.recCursor
         /\ records' = run.records
         /\ matchGroupNew' = run.st.matchGroupNew
         /\ globalmatchCount' = run.st.globalmatchCount
         /\ idToGroup' = run.st.idToGroup
         /\ idToSubgroup' = run.st.idToSubgroup
         /\ subgroupToId' = run.st.subgroupToId
         /\ idToDistance' = run.st.idToDistance
         /\ UNCHANGED <<pc, raised>>

\* one iteration of the loop of findOverlaps
FindOverlapsRecord ==
    /\ pc = "overlaps"
    /\ dbCursor <= Len(dbsParsed)
    /\ recCursor <= Len(dbsParsed[dbCursor].procDict)
    /\ SetRun(RunStep(dbsParsed, GlobalIndex, CurrentRun))
    /\ UNCHANGED <<globals, dbsParsed, dfOverlaps, perSource, stale, gui>>

\* findOverlaps returns globalmatchCount; the loop of line 252 goes on
FindOverlapsReturn ==
    /\ pc = "overlaps"
    /\ dbCursor <= Len(dbsParsed)
    /\ recCursor > Len(dbsParsed[dbCursor].procDict)
    /\ SetRun(RunStep(dbsParsed, GlobalIndex, CurrentRun))
    /\ UNCHANGED <<globals, dbsParsed, dfOverlaps, perSource, stale, gui>>

\* lines 262-268: the table is stored, or the exception leaves the call
SetReturned(ret) ==
    IF ret.err # "none"
    THEN /\ Raise(ret.err)
         /\ UNCHANGED <<dfOverlaps, stale>>
    ELSE /\ dfOverlaps' = ret.df
         /\ stale' = FALSE
         /\ pc' = "idle"
         /\ dbCursor' = 0
         /\ recCursor' = 0
         /\ FreshLocals
         /\ UNCHANGED raised

\* the loops are over: the rows are sorted and returned
CombineOverlapsEnd ==
    /\ pc = "overlaps"
    /\ dbCursor > Len(dbsParsed)
    /\ SetReturned(Returned(CurrentRun))
    /\ UNCHANGED <<globals, dbsParsed, perSource, gui>>

\* the engine as main() drives it (overlapper.py 1295-1313): every source is
\* ingested once, in any order, before the overlaps are combined
IngestFrom(pool) ==
    /\ dfOverlaps = <<>>
    /\ raised = "none"
    /\ UNCHANGED gui
    /\ \E dbName \in Tags \ DbNamesOf(dbsParsed) :
         \E rows \in SeqsUpTo(pool, Min2(MaxRecs,
                                         MaxTotal - TotalRecords(dbsParsed))) :
             ExtractDb(dbName, rows)

Ingest == IngestFrom(RecPool)

Next ==
    \/ Ingest
    \/ CombineOverlapsNone
    \/ CombineOverlapsBegin
    \/ FindOverlapsRecord
    \/ FindOverlapsReturn
    \/ CombineOverlapsEnd

Spec == Init /\ [][Next]_vars

(***************************************************************************)
(* The indexes alone: the sources are drawn from a wider pool, which adds  *)
(* to RecPool a record whose only live key is its title, so that           *)
(* "NoPMID ab" - "222 ab" - "333 ba" - ". ba" is a chain of four records.  *)
(***************************************************************************)
WidePool == RecPool \cup {Rec(NoPMID, AuthorDot, TitleBA, NoneKey)}

IngestWide == IngestFrom(WidePool)

SpecIndex == Init /\ [][IngestWide]_vars

(***************************************************************************)
(* The graph of the ingested records: two ids are joined when their        *)
(* records share a PMID, an author key or a title key that is no sentinel. *)
(***************************************************************************)
AllIds ==
    UNION {{DbId(dbsParsed[k].dbName, n - 1) : n \in 1..Len(dbsParsed[k].procDict)} :
           k \in 1..Len(dbsParsed)}

SharesKey(a, b) ==
    \/ a.pmid = b.pmid /\ a.pmid \notin {"NoPMID", "."}
    \/ a.authorKey = b.authorKey /\ a.authorKey # <<DotStr>>
    \/ a.titleMin = b.titleMin /\ a.titleMin # DotStr

Joined(x, y) == SharesKey(RecOf(x, dbsParsed), RecOf(y, dbsParsed))

RECURSIVE Reach(_)
Reach(S) ==
    IF \E y \in AllIds \ S : \E x \in S : Joined(x, y)
    THEN Reach(S \cup {y \in AllIds : \E x \in S : Joined(x, y)})
    ELSE S

Component(seed) == Reach({seed})

\* the member set the closure loop computes for the seed
Members(seed) ==
    Range(MatchClosure(seed, RecOf(seed, dbsParsed), dbsParsed, GlobalIndex).matchKeyDict)

Rows == 1..Len(dfOverlaps)
IsGrouped(row) == row.Group # NoGroup

Reverse(q) == [i \in 1..Len(q) |-> q[Len(q) + 1 - i]]

\* a call of findGroups with the members of a signature the memo holds, in
\* the order members, returns the stored number and leaves memo and counter
MemoHit(members, key) ==
    /\ findGroups(Head(members), members, globalmatchCount, matchGroupNew).matchGroupOut
       = matchGroupNew[key]
    /\ findGroups(Head(members), members, globalmatchCount, matchGroupNew).matchGroup
       = matchGroupNew
    /\ findGroups(Head(members), members, globalmatchCount, matchGroupNew).matchCountHere
       = globalmatchCount

\* C3: within one resolve the memo is pure and its numbering dense: a
\* signature already seen returns the number it was first given, whatever the
\* order of the members; every step keeps the stored numbers, gives a new
\* signature the next number, and the numbers given are exactly 1..n.
C3_MemoPureAndDense ==
    [][ /\ \A key \in DOMAIN matchGroupNew :
              MemoHit(key, key) /\ MemoHit(Reverse(key), key)
        /\ pc = "overlaps" /\ pc' = "overlaps"
           => /\ \A key \in DOMAIN matchGroupNew :
                    /\ key \in DOMAIN matchGroupNew'
                    /\ matchGroupNew'[key] = matchGroupNew[key]
              /\ \A key \in DOMAIN matchGroupNew' \ DOMAIN matchGroupNew :
                    matchGroupNew'[key] = Cardinality(DOMAIN matchGroupNew) + 1
              /\ {matchGroupNew'[key] : key \in DOMAIN matchGroupNew'}
                 = 1..Cardinality(DOMAIN matchGroupNew')
              /\ globalmatchCount' = Cardinality(DOMAIN matchGroupNew') ]_vars

\* C3 witness: two signatures are numbered, and the row just appended is of
\* a source other than MED and of a component numbered before it.
C3_MemoHitReached ==
    /\ pc = "overlaps"
    /\ Cardinality(DOMAIN matchGroupNew) = 2
    /\ records # <<>>
    /\ records[Len(records)].Paper_ID[1] # "MED"
    /\ \E i \in 1..(Len(records) - 1) :
          /\ records[i].Group # NoGroup
          /\ records[i].Group = records[Len(records)].Group

(***************************************************************************)
(* The engine run in an independent context on the same sources ingested   *)
(* in reversed order: the global dicts are built from empty dicts by       *)
(* indexing the sources in that order.                                     *)
(***************************************************************************)
RECURSIVE IndexAll(_, _)
IndexAll(dbDicts, idx) ==
    IF dbDicts = <<>> THEN idx
    ELSE IndexAll(Tail(dbDicts),
                  IndexRows(Head(dbDicts).dbName, Head(dbDicts).procDict, 0, idx))

ForwardRun == combineOverlaps(dbsParsed, GlobalIndex)
ReversedRun ==
    combineOverlaps(Reverse(dbsParsed), IndexAll(Reverse(dbsParsed), EmptyIndex))

\* the ids of the rows of df in the component, or in the subgroup, of row i
\* (an ungrouped row is alone in both)
SameGroup(df, i) ==
    {df[i].Paper_ID} \cup {df[j].Paper_ID : j \in {k \in 1..Len(df) :
        df[k].Group # NoGroup /\ df[k].Group = df[i].Group}}
SameSubgroup(df, i) ==
    {df[i].Paper_ID} \cup {df[j].Paper_ID : j \in {k \in 1..Len(df) :
        df[k].Group # NoGroup /\ df[k].Group = df[i].Group
        /\ df[k].Subgrp = df[i].Subgrp}}
ComponentsOf(df) == {SameGroup(df, i) : i \in 1..Len(df)}
SubgroupsOf(df) == {SameSubgroup(df, i) : i \in 1..Len(df)}

SameComponents(f, b) == f.err = b.err /\ ComponentsOf(f.df) = ComponentsOf(b.df)
SameSubgroups(f, b) == f.err = b.err /\ SubgroupsOf(f.df) = SubgroupsOf(b.df)

\* C4 as stated: the run on the same two sources ingested in reversed order
\* yields the same component membership and the same subgroup partition of
\* every component as the forward run.
C4_ReversedOrderSamePartition ==
    Len(dbsParsed) = 2
    => SameComponents(ForwardRun, ReversedRun) /\ SameSubgroups(ForwardRun, ReversedRun)

\* C5: the table resolve returns has exactly one row per ingested record:
\* its row count is the sum of the record counts of the ingested sources.
C5_OneRowPerRecord ==
    dfOverlaps # <<>>
    => /\ Len(dfOverlaps) = TotalRecords(dbsParsed)
       /\ {dfOverlaps[i].Paper_ID : i \in Rows} = AllIds
       /\ Cardinality(AllIds) = Len(dfOverlaps)

\* C5 witness: a table of four rows from two sources, with a row without a
\* group and two rows of source MED in one group (the second is not
\* recomputed).
C5_FourRowsReturned ==
    /\ Len(dfOverlaps) = 4
    /\ Len(dbsParsed) = 2
    /\ \E i \in Rows : dfOverlaps[i].Group = NoGroup
    /\ \E i \in Rows : \E j \in Rows :
          /\ i # j
          /\ dfOverlaps[i].Paper_ID[1] = "MED" /\ dfOverlaps[j].Paper_ID[1] = "MED"
          /\ dfOverlaps[i].Group # NoGroup
          /\ dfOverlaps[i].Group = dfOverlaps[j].Group

\* C6: a resolve that ends with no ingest since the table was last returned
\* returns, without an exception, the table returned before.
C6_ResolveIdempotent ==
    [][ pc = "overlaps" /\ pc' = "idle" /\ ~stale
        => raised' = "none" /\ dfOverlaps' = dfOverlaps ]_vars

\* C6 witness: a second resolve with no ingest in between has run its loops
\* over three records or more, one of them grouped, and is to return the
\* table returned before.
C6_SecondResolveDone ==
    /\ pc = "overlaps"
    /\ ~stale
    /\ dbCursor > Len(dbsParsed)
    /\ Len(records) >= 3
    /\ \E i \in 1..Len(records) : records[i].Group # NoGroup
    /\ sort_values(records) = dfOverlaps

\* the per-source key index of the source ingested last
SourceIndex ==
    [pmid |-> pmidDict, author |-> authorKeyDict,
     title |-> titleMinDict, journal |-> journalKeyDict]

\* C7: no bucket of a per-source key index or of the Global Key Index is
\* keyed by a sentinel ("NoPMID", ".", "NoYear"): a sentinel signature of a
\* record is never inserted as a key.
C7_NoSentinelKey ==
    \A idx \in {GlobalIndex, SourceIndex} :
        /\ NoPMID \notin DOMAIN idx.pmid
        /\ DotPMID \notin DOMAIN idx.pmid
        /\ AuthorDot \notin DOMAIN idx.author
        /\ DotStr \notin DOMAIN idx.title
        /\ NoYear \notin DOMAIN idx.title

\* every bucket of d is a prefix of the bucket of e for the same key
PrefixDict(d, e) ==
    \A key \in DOMAIN d : key \in DOMAIN e /\ IsPrefix(d[key], e[key])

PrefixIndex(idx, idy) ==
    /\ PrefixDict(idx.pmid, idy.pmid)
    /\ PrefixDict(idx.author, idy.author)
    /\ PrefixDict(idx.title, idy.title)
    /\ PrefixDict(idx.journal, idy.journal)

\* every id of a bucket of d is in the bucket of e for the same key
SubDict(d, e) ==
    \A key \in DOMAIN d : key \in DOMAIN e /\ Range(d[key]) \subseteq Range(e[key])

\* the look-up of a key in d finds the id
Finds(d, key, id) == key \in DOMAIN d /\ Contains(d[key], id)

\* the look-up of every signature of every stored record finds the record
NeverMisses ==
    \A i \in 1..Len(dbsParsed) : \A n \in 1..Len(dbsParsed[i].procDict) :
        /\ Finds(globalPmidDict, dbsParsed[i].procDict[n].pmid,
                 <<dbsParsed[i].dbName, n>>)
        /\ Finds(globalAuthorKeyDict, dbsParsed[i].procDict[n].authorKey,
                 <<dbsParsed[i].dbName, n>>)
        /\ Finds(globalTitleMinDict, dbsParsed[i].procDict[n].titleMin,
                 <<dbsParsed[i].dbName, n>>)
        /\ Finds(globalJournalKeyDict, dbsParsed[i].procDict[n].journalKey,
                 <<dbsParsed[i].dbName, n>>)

\* the insertion of each row of the source, row by row from the index idx,
\* leaves every bucket a prefix of the bucket after it
RowByRowPrefix(tag, rows, idx) ==
    \A n \in 0..(Len(rows) - 1) :
        PrefixIndex(IndexRows(tag, SubSeq(rows, 1, n), 0, idx),
                    IndexRows(tag, SubSeq(rows, 1, n + 1), 0, idx))

\* C8: the buckets are append-only: an ingest leaves every bucket a prefix
\* of the bucket afterwards, row by row and as a whole; after it every
\* bucket of the Global Key Index holds the ids of the bucket of the
\* source's own index for the same key, and the look-up of a signature of
\* a stored record in the Global Key Index finds the record.
C8_BucketsAppendOnly ==
    [][ Len(dbsParsed') > Len(dbsParsed)
        => /\ PrefixIndex(GlobalIndex, GlobalIndex')
           /\ RowByRowPrefix(dbsParsed'[Len(dbsParsed')].dbName,
                             dbsParsed'[Len(dbsParsed')].procDict, GlobalIndex)
           /\ RowByRowPrefix(dbsParsed'[Len(dbsParsed')].dbName,
                             dbsParsed'[Len(dbsParsed')].procDict, EmptyIndex)
           /\ SubDict(pmidDict', globalPmidDict')
           /\ SubDict(authorKeyDict', globalAuthorKeyDict')
           /\ SubDict(titleMinDict', globalTitleMinDict')
           /\ SubDict(journalKeyDict', globalJournalKeyDict')
           /\ NeverMisses' ]_vars

\* C8 witness: the second source is ingested and a bucket of the Global Key
\* Index holds ids of both sources, two of them of the source ingested
\* last, whose own bucket holds the two.
C8_SharedBucketGrown ==
    /\ Len(dbsParsed) = 2
    /\ \E key \in DOMAIN titleMinDict :
          /\ Len(titleMinDict[key]) = 2
          /\ Len(globalTitleMinDict[key]) > 2
          /\ globalTitleMinDict[key][1][1] # titleMinDict[key][1][1]

(***************************************************************************)
(* The engine on pairs of records: each source holds one record of a pool  *)
(* that varies every part of the score (PMID present, absent or different; *)
(* author keys close, far, with a year one off, with no year, or the       *)
(* sentinel; title keys equal, transposed or the sentinel; journal keys    *)
(* equal, different or absent).                                            *)
(***************************************************************************)
Y2020 == <<2, 0, 2, 0>>
Auth2020 == <<<<10>>, <<11, 11, 11>>, <<12, 12, 12>>, Y2020>>
AuthNoYear == <<<<10>>, <<11, 11, 11>>, <<12, 12, 12>>, NoYear>>
JourJK == <<19, 20>>

ScorePool ==
    WidePool \cup
    { Rec(NoPMID, AuthABC, TitleAB, JourJ),
      Rec(NoPMID, Auth2020, TitleAB, JourJK),
      Rec(NoPMID, AuthNoYear, TitleAB, NoneKey),
      Rec(NoPMID, AuthorDot, TitleAB, JourJ),
      Rec(NoPMID, AuthABC, DotStr, JourJ),
      Rec(NoPMID, AuthABC, TitleBA, JourJ),
      Rec("222", AuthAAA, TitleBA, NoneKey) }

IngestOne ==
    /\ dfOverlaps = <<>>
    /\ raised = "none"
    /\ UNCHANGED gui
    /\ \E dbName \in Tags \ DbNamesOf(dbsParsed) :
         \E rec \in ScorePool : ExtractDb(dbName, <<rec>>)

NextScore ==
    \/ IngestOne
    \/ CombineOverlapsBegin
    \/ FindOverlapsRecord
    \/ FindOverlapsReturn
    \/ CombineOverlapsEnd

SpecScore == Init /\ [][NextScore]_vars

\* C9: the score of two records of one component is the same whichever of
\* the two is taken as the first record.
C9_ScoreSymmetric ==
    \A x \in AllIds : \A y \in Component(x) :
        DistanceOut(RecOf(x, dbsParsed), RecOf(y, dbsParsed))
            = DistanceOut(RecOf(y, dbsParsed), RecOf(x, dbsParsed))

\* the scores printed in a column of annotations
Printed(ann) == {ann[i].score : i \in 1..Len(ann)}

RowsInRange(rows) ==
    \A i \in 1..Len(rows) :
        /\ Printed(rows[i].Similar_Records) \subseteq 0..100
        /\ Printed(rows[i].Similarity) \subseteq 0..100

PartsInRange(h) ==
    /\ h.title \in 0..30
    /\ h.journal \in 0..20
    /\ h.year \in 0..20
    /\ h.author \in 0..30

\* C10: every score in the distance cache and every score printed in
\* Similar_Records or Similarity is in 0..100, so never 9999; the parts of
\* the heuristic of two stored records are in 0..30 (title), 0..20
\* (journal), 0..20 (year) and 0..30 (author).
C10_ScoresInRange ==
    /\ \A x \in DOMAIN idToDistance : \A y \in DOMAIN idToDistance[x] :
          idToDistance[x][y] \in 0..100
    /\ RowsInRange(records)
    /\ RowsInRange(dfOverlaps)
    /\ \A x \in AllIds : \A y \in AllIds \ {x} :
          PartsInRange(HeuristicParts(RecOf(x, dbsParsed), RecOf(y, dbsParsed)))

\* C10 witness: the table prints, for a record with no PMID, a score of the
\* heuristic that is neither 0 nor 100, and the cache holds it.
C10_HeuristicScorePrinted ==
    \E i \in Rows :
        /\ dfOverlaps[i].PMID = NoPMID
        /\ \E k \in 1..Len(dfOverlaps[i].Similar_Records) :
              /\ dfOverlaps[i].Similar_Records[k].score \in 1..99
              /\ pc = "overlaps"
              /\ dfOverlaps[i].Paper_ID \in DOMAIN idToDistance
              /\ dfOverlaps[i].Similar_Records[k].id
                    \in DOMAIN idToDistance[dfOverlaps[i].Paper_ID]

(***************************************************************************)
(* The engine on components of up to five records in which two subgroups   *)
(* form: the rows of a source are drawn from SubList, in the order of that *)
(* list.  Letters: d = 13, e = 14, f = 15, x = 33, y = 34, z = 35.         *)
(***************************************************************************)
AuthABD == <<<<10>>, <<11, 11, 11>>, <<12, 12, 13>>, Y2019>>
AuthXYZ == <<<<33>>, <<34, 34, 34>>, <<35, 35, 35>>, Y2019>>
TitleCD == <<12, 13>>
TitleEF == <<14, 15>>

SubList ==
    << Rec(NoPMID, AuthABC, TitleAB, JourJ),
       Rec("333", AuthXYZ, TitleCD, NoneKey),
       Rec("444", AuthABC, TitleEF, NoneKey),
       Rec("333", AuthABD, TitleAB, JourJ) >>

\* the positions in SubList of the rows of one source file
SortedPicks(n) ==
    {q \in SeqsUpTo(1..Len(SubList), n) : \A i \in 1..(Len(q) - 1) : q[i] <= q[i + 1]}

IngestSub ==
    /\ dfOverlaps = <<>>
    /\ raised = "none"
    /\ UNCHANGED gui
    /\ \E dbName \in Tags \ DbNamesOf(dbsParsed) :
         \E q \in SortedPicks(Min2(MaxRecs + 1,
                                   MaxTotal + 1 - TotalRecords(dbsParsed))) :
             ExtractDb(dbName, [i \in 1..Len(q) |-> SubList[q[i]]])

NextSub ==
    \/ IngestSub
    \/ CombineOverlapsNone
    \/ CombineOverlapsBegin
    \/ FindOverlapsRecord
    \/ FindOverlapsReturn
    \/ CombineOverlapsEnd

SpecSub == Init /\ [][NextSub]_vars

(***************************************************************************)
(* The rows of the returned table: subgroups, source order, counts.        *)
(***************************************************************************)
\* the rows i and j carry the same subgroup id, which is not '.'
SameSubgroupId(i, j) ==
    /\ IsGrouped(dfOverlaps[i])
    /\ dfOverlaps[i].Group = dfOverlaps[j].Group
    /\ dfOverlaps[i].Subgrp = dfOverlaps[j].Subgrp

\* the rows of the subgroup of row i, row i among them
SubgroupRows(i) ==
    IF IsGrouped(dfOverlaps[i]) THEN {j \in Rows : SameSubgroupId(i, j)} ELSE {i}

\* the place of the source of row i in the ingestion order
SourceRank(i) ==
    CHOOSE k \in 1..Len(dbsParsed) : dbsParsed[k].dbName = dfOverlaps[i].Paper_ID[1]

\* the record of row i
RowRec(i) == RecOf(dfOverlaps[i].Paper_ID, dbsParsed)

\* C11: two records that share a subgroup id have a pairwise score of 90
\* or more, with one or the other taken as the first record.
C11_SubgroupScoresAtLeast90 ==
    \A i \in Rows : \A j \in SubgroupRows(i) \ {i} :
        \/ DistanceOut(RowRec(i), RowRec(j)) >= 90
        \/ DistanceOut(RowRec(j), RowRec(i)) >= 90

\* the two records of two sources share a PMID that is no sentinel
TwoSharingPmid ==
    /\ Len(dbsParsed) = 2
    /\ Len(dbsParsed[1].procDict) = 1
    /\ Len(dbsParsed[2].procDict) = 1
    /\ dbsParsed[1].procDict[1].pmid = dbsParsed[2].procDict[1].pmid
    /\ PmidLive(dbsParsed[1].procDict[1].pmid)

\* C12: Grp_Size of a row is the number of records with the subgroup id of
\* the row's record, the record itself counted; 1 for an ungrouped record;
\* 2 for both of two records of two sources that share a PMID.
C12_GrpSizeIsSubgroupSize ==
    /\ \A i \in Rows : dfOverlaps[i].Grp_Size = Cardinality(SubgroupRows(i))
    /\ dfOverlaps # <<>> /\ TwoSharingPmid
       => \A i \in Rows : dfOverlaps[i].Grp_Size = 2

\* some other record of the subgroup of row i is of a source ingested
\* earlier than the source of row i
EarlierCoMember(i) ==
    \E j \in SubgroupRows(i) \ {i} : SourceRank(j) < SourceRank(i)

\* C13: MainRecord is "N" exactly when another record of the subgroup is of
\* a source ingested earlier, "Y" otherwise; of two records of two sources
\* that share a PMID the earlier source's is "Y" and the other's "N".
C13_MainRecordIffNoEarlier ==
    /\ \A i \in Rows :
          dfOverlaps[i].MainRecord = (IF EarlierCoMember(i) THEN "N" ELSE "Y")
    /\ dfOverlaps # <<>> /\ TwoSharingPmid
       => \A i \in Rows :
             dfOverlaps[i].MainRecord = (IF SourceRank(i) = 1 THEN "Y" ELSE "N")

\* C14: among the records that share a subgroup id exactly one has
\* MainRecord "Y", and it is of the earliest source present in the subgroup.
C14_OneRepresentative ==
    \A i \in Rows :
        IsGrouped(dfOverlaps[i])
        => /\ Cardinality({j \in SubgroupRows(i) : dfOverlaps[j].MainRecord = "Y"}) = 1
           /\ \A j \in SubgroupRows(i) :
                 dfOverlaps[j].MainRecord = "Y"
                 => \A k \in SubgroupRows(i) : SourceRank(j) <= SourceRank(k)

\* the value row i holds in the count column named name
CountColumn(i, name) ==
    {dfOverlaps[i].Counts[k].val :
        k \in {n \in 1..Len(dfOverlaps[i].Counts) : dfOverlaps[i].Counts[n].name = name}}

\* C15: for every row and every ingested source, the count column named
\* for the source holds the number of records of the source in the row's
\* subgroup, the row's own record counted under its own source.
C15_CountsPerSource ==
    \A i \in Rows : \A k \in 1..Len(dbsParsed) :
        CountColumn(i, dbsParsed[k].dbName)
            = {Cardinality({j \in SubgroupRows(i) :
                               dfOverlaps[j].Paper_ID[1] = dbsParsed[k].dbName})}

HeuristicSum(a, b) == SumParts(HeuristicParts(a, b))

\* the PMID rule on the score d stored for the records a and b
PmidRule(a, b, d) ==
    /\ a.pmid = b.pmid /\ a.pmid # NoPMID => d = 100
    /\ a.pmid # b.pmid /\ a.pmid # NoPMID /\ b.pmid # NoPMID => d = 0
    /\ a.pmid = NoPMID \/ b.pmid = NoPMID
       => d = HeuristicSum(a, b) \/ d = HeuristicSum(b, a)

\* C17: the score stored for two records is 100 when both have the same
\* PMID that is not "NoPMID", 0 when both have PMIDs that are not "NoPMID"
\* and differ, and the sum of the heuristic when one PMID or both are
\* "NoPMID".
C17_PmidRule ==
    \A x \in DOMAIN idToDistance : \A y \in DOMAIN idToDistance[x] :
        PmidRule(RecOf(x, dbsParsed), RecOf(y, dbsParsed), idToDistance[x][y])

\* C17 witness: the score 100 is stored for two records with the same PMID
\* whose heuristic sum is not 100.
C17_SamePmidHeuristicSkipped ==
    \E x \in DOMAIN idToDistance : \E y \in DOMAIN idToDistance[x] :
        /\ RecOf(x, dbsParsed).pmid = RecOf(y, dbsParsed).pmid
        /\ RecOf(x, dbsParsed).pmid # NoPMID
        /\ idToDistance[x][y] = 100
        /\ HeuristicSum(RecOf(x, dbsParsed), RecOf(y, dbsParsed)) < 100

(***************************************************************************)
(* The pass of subGroupV2 over the pairs of a component, pair by pair.     *)
(* The component of a seed is the id list its closure returns; the scores  *)
(* are those subGroupV2 stores for that list.                              *)
(***************************************************************************)
SpecSubIndex == Init /\ [][IngestSub]_vars

\* the id list of the component the closure finds from the seed
IdListOf(seed) == MatchClosure(seed, RecOf(seed, dbsParsed), dbsParsed, GlobalIndex).matchKeyDict

\* the scores subGroupV2 stores for the id list
ScoresOf(idList) ==
    FindDistances(idList, dbsParsed, 0,
                  [err |-> "none",
                   idToDistance |-> ResetDistance(idList, InitIdToDistance)]).idToDistance

\* the dicts of the pass before its first pair
PassStart ==
    [err |-> "none", idToSubgroup |-> InitIdToSubgroup,
     subgroupToId |-> InitSubgroupToId, nextGroup |-> Unbound, groupNum |-> 0]

\* the visit of the one pair (one, two): the loops of lines 812-839 on the
\* list of the two ids, from the pair (one, two) on; the pairs (two, one)
\* and (two, two) that follow leave the dicts as the first visit left them
PairVisit(one, two, dist, g) == FindTheGroups(<<one, two>>, 1, dist, 1, g)

PairOne(idList, k) == idList[(k \div Len(idList)) + 1]
PairTwo(idList, k) == idList[(k % Len(idList)) + 1]

RECURSIVE PassPrefix(_, _, _)
\* the dicts after the visits of the first k pairs
PassPrefix(idList, dist, k) ==
    IF k = 0 THEN PassStart
    ELSE PairVisit(PairOne(idList, k - 1), PairTwo(idList, k - 1), dist,
                   PassPrefix(idList, dist, k - 1))

Assigned(id, g) == id \in DOMAIN g.idToSubgroup
SubgroupIds(g) == {g.idToSubgroup[id] : id \in DOMAIN g.idToSubgroup}

\* the greedy rule on the visit of (one, two) that takes the dicts g to h
GreedyRule(one, two, dist, g, h) ==
    IF one = two \/ dist[one][two] < 90 \/ (Assigned(one, g) /\ Assigned(two, g))
    THEN h = g
    ELSE IF Assigned(one, g)
    THEN h.idToSubgroup = Put(g.idToSubgroup, two, g.idToSubgroup[one])
    ELSE IF Assigned(two, g)
    THEN h.idToSubgroup = Put(g.idToSubgroup, one, g.idToSubgroup[two])
    ELSE /\ DOMAIN h.idToSubgroup = DOMAIN g.idToSubgroup \cup {one, two}
         /\ \A id \in DOMAIN g.idToSubgroup : h.idToSubgroup[id] = g.idToSubgroup[id]
         /\ h.idToSubgroup[one] = h.idToSubgroup[two]
         /\ h.idToSubgroup[one] \notin SubgroupIds(g)
         /\ h.idToSubgroup[one] \notin DOMAIN g.subgroupToId
         /\ h.subgroupToId[h.idToSubgroup[one]] = <<one, two>>

StepObeys(idList, dist, k, g) ==
    GreedyRule(PairOne(idList, k), PairTwo(idList, k), dist, g,
               PairVisit(PairOne(idList, k), PairTwo(idList, k), dist, g))

\* after the pass: the ids assigned keep their subgroup, every other id of
\* the list is alone in a subgroup no other id has
SingletonsRule(idList, g, h) ==
    /\ DOMAIN h.idToSubgroup = DOMAIN g.idToSubgroup \cup Range(idList)
    /\ \A id \in DOMAIN g.idToSubgroup : h.idToSubgroup[id] = g.idToSubgroup[id]
    /\ \A id \in Range(idList) \ DOMAIN g.idToSubgroup :
          /\ h.idToSubgroup[id] \notin SubgroupIds(g)
          /\ h.subgroupToId[h.idToSubgroup[id]] = <<id>>
          /\ \A other \in DOMAIN h.idToSubgroup \ {id} :
                h.idToSubgroup[other] # h.idToSubgroup[id]

PassObeys(idList, dist) ==
    /\ \A k \in 0..(Len(idList) * Len(idList) - 1) :
          StepObeys(idList, dist, k, PassPrefix(idList, dist, k))
    /\ PassPrefix(idList, dist, Len(idList) * Len(idList))
          = FindTheGroups(idList, 1, dist, 0, PassStart)
    /\ SingletonsRule(idList, FindTheGroups(idList, 1, dist, 0, PassStart),
                      AssignRemaining(idList, 1,
                                      FindTheGroups(idList, 1, dist, 0, PassStart)))

\* C18: every visit of a pair in the pass of subGroupV2 follows the greedy
\* rule (a score below 90 and a pair of two assigned ids change nothing, a
\* score of 90 or more makes a new subgroup of two unassigned ids or gives
\* the unassigned id the subgroup id of the assigned one), and after the
\* pass every id still unassigned is alone in a new subgroup.
C18_GreedyPass ==
    \A seed \in AllIds :
        Len(IdListOf(seed)) > 1 => PassObeys(IdListOf(seed), ScoresOf(IdListOf(seed)))

\* the visit of pair k of the list finds a score of 90 or more, with exactly
\* nOne of its two ids assigned before
HighPair(idList, dist, k, g, nAssigned) ==
    /\ PairOne(idList, k) # PairTwo(idList, k)
    /\ dist[PairOne(idList, k)][PairTwo(idList, k)] >= 90
    /\ Cardinality({id \in {PairOne(idList, k), PairTwo(idList, k)} : Assigned(id, g)}) = nAssigned

SomeHighPair(idList, dist, nAssigned) ==
    \E k \in 0..(Len(idList) * Len(idList) - 1) :
        HighPair(idList, dist, k, PassPrefix(idList, dist, k), nAssigned)

LeftUnassigned(idList, g) == Range(idList) \ DOMAIN g.idToSubgroup # {}

AllCases(idList, dist) ==
    /\ SomeHighPair(idList, dist, 0)
    /\ SomeHighPair(idList, dist, 1)
    /\ SomeHighPair(idList, dist, 2)
    /\ LeftUnassigned(idList, FindTheGroups(idList, 1, dist, 0, PassStart))

\* a component whose pass makes a subgroup of two unassigned ids, gives a
\* third id the subgroup of an assigned one, meets a pair of two assigned
\* ids with a score of 90 or more, and leaves an id to be put alone
C18_AllCasesInOnePass ==
    \E seed \in AllIds :
        Len(IdListOf(seed)) > 3 /\ AllCases(IdListOf(seed), ScoresOf(IdListOf(seed)))

(***************************************************************************)
(* Three rows with the same authors, title and journal: one of PMID 333,   *)
(* one of PMID 444 and one without PMID.  The rows of a file are drawn in  *)
(* the order of the list, a row as often as the bounds allow.              *)
(***************************************************************************)
OrderList == << Rec("333", AuthABC, TitleAB, JourJ), Rec("444", AuthABC, TitleAB, JourJ),
                Rec(NoPMID, AuthABC, TitleAB, JourJ) >>

OrderPicks(n) == {q \in SeqsUpTo(1..Len(OrderList), n) : \A i \in 1..(Len(q) - 1) : q[i] <= q[i + 1]}

IngestOrder ==
    /\ dfOverlaps = <<>>
    /\ raised = "none"
    /\ UNCHANGED gui
    /\ \E dbName \in Tags \ DbNamesOf(dbsParsed) :
          \E q \in OrderPicks(Min2(MaxRecs + 1, MaxTotal + 1 - TotalRecords(dbsParsed))) :
              ExtractDb(dbName, [i \in 1..Len(q) |-> OrderList[q[i]]])

SpecOrder == Init /\ [][IngestOrder]_vars

\* the subgroup ids subGroupV2 returns for the id list, none assigned before
PassResult(idList, dist) ==
    AssignRemaining(idList, 1, FindTheGroups(idList, 1, dist, 0, PassStart)).idToSubgroup

\* the sets of ids the pass over the id list puts under one subgroup id
PartitionOf(idToSub) == {{j \in DOMAIN idToSub : idToSub[j] = idToSub[i]} : i \in DOMAIN idToSub}
SeedPartition(seed) == PartitionOf(PassResult(IdListOf(seed), ScoresOf(IdListOf(seed))))

SamePartitions(P) == \A x \in DOMAIN P : \A y \in UNION P[x] : P[x] = P[y]

\* C19: the subgroup partition of a component is the same whichever of its
\* members is the seed of the closure that lists it.
C19_PartitionSeedIndependent == SamePartitions([x \in AllIds |-> SeedPartition(x)])

\* every id with a subgroup id in m has the same subgroup id in n
Kept(m, n) == \A id \in DOMAIN m : id \in DOMAIN n /\ n[id] = m[id]

StepKeeps(g, h) == Kept(g.idToSubgroup, h.idToSubgroup)

\* no visit of a pair and no singleton of lines 842-846 changes a subgroup
\* id given earlier in the pass
PassKeeps(idList, dist) ==
    /\ \A k \in 0..(Len(idList) * Len(idList) - 1) :
          StepKeeps(PassPrefix(idList, dist, k), PassPrefix(idList, dist, k + 1))
    /\ Kept(FindTheGroups(idList, 1, dist, 0, PassStart).idToSubgroup,
            PassResult(idList, dist))

EveryPassKeeps ==
    \A seed \in AllIds :
        Len(IdListOf(seed)) > 1 => PassKeeps(IdListOf(seed), ScoresOf(IdListOf(seed)))

Y2021 == <<2, 0, 2, 1>>
Y2023 == <<2, 0, 2, 3>>
Y201a == <<2, 0, 1, 10>>
AuthYear(y) == <<<<10>>, <<11, 11, 11>>, <<12, 12, 12>>, y>>

YearPool ==
    {Rec(NoPMID, AuthYear(y), TitleAB, JourJ) : y \in {Y2019, Y2020, Y2021, Y2023, Y201a, NoYear}}
        \cup {Rec(NoPMID, AuthorDot, TitleAB, JourJ)}

IngestYear ==
    /\ dfOverlaps = <<>>
    /\ raised = "none"
    /\ UNCHANGED gui
    /\ \E dbName \in Tags \ DbNamesOf(dbsParsed) :
         \E rec \in YearPool : ExtractDb(dbName, <<rec>>)

NextYear ==
    \/ IngestYear
    \/ CombineOverlapsBegin
    \/ FindOverlapsRecord
    \/ FindOverlapsReturn
    \/ CombineOverlapsEnd

SpecYear == Init /\ [][NextYear]_vars

AbsDiff(m, n) == IF m >= n THEN m - n ELSE n - m
NoYearField(y) == y = NoYear \/ y = DotStr

\* the year part by the table: equal fields 20; else a field that is
\* "NoYear" or missing 0; else years one apart 16, two apart 12; else 0
YearTable(yOne, yTwo) ==
    IF yOne = yTwo THEN 20
    ELSE IF NoYearField(yOne) \/ NoYearField(yTwo) THEN 0
    ELSE IF IsInt(yOne) /\ IsInt(yTwo) /\ AbsDiff(ToInt(yOne), ToInt(yTwo)) = 1 THEN 16
    ELSE IF IsInt(yOne) /\ IsInt(yTwo) /\ AbsDiff(ToInt(yOne), ToInt(yTwo)) = 2 THEN 12
    ELSE 0

\* the stored score d less the title, journal and author parts of (a, b)
YearShare(a, b, d) ==
    d - TitleMinDiffWeight(a.titleMin, b.titleMin)
      - JournalKeyDiffWeight(a.journalKey, b.journalKey)
      - AuthorDist(PopList(a.authorKey), PopList(b.authorKey))

YearRule(a, b, d) ==
    PmidDistance(a.pmid, b.pmid) = 9999
        => YearShare(a, b, d) = YearTable(PopYear(a.authorKey), PopYear(b.authorKey))

\* C21: the year part of a stored heuristic score is 20 for equal year
\* fields, otherwise 0 when a field is "NoYear" or missing, otherwise 16
\* for years one apart, 12 for years two apart, and 0 in every other case.
C21_YearComponent ==
    \A x \in DOMAIN idToDistance : \A y \in DOMAIN idToDistance[x] :
        YearRule(RecOf(x, dbsParsed), RecOf(y, dbsParsed), idToDistance[x][y])

\* a stored score of two records whose years are two apart, with 12 for
\* the year
C21_TwoYearsApart ==
    \E x \in DOMAIN idToDistance : \E y \in DOMAIN idToDistance[x] :
        /\ PopYear(RecOf(x, dbsParsed).authorKey) = Y2019
        /\ PopYear(RecOf(y, dbsParsed).authorKey) = Y2021
        /\ YearShare(RecOf(x, dbsParsed), RecOf(y, dbsParsed), idToDistance[x][y]) = 12

(***************************************************************************)
(* Empty signatures: the title key '' of a title of punctuation alone      *)
(* (extractor.py 419-426), the journal key '' of a journal field that      *)
(* starts with a digit (extractor.py 443-452) and the surname '' of an     *)
(* author written as punctuation (extractor.py 301-306).                   *)
(***************************************************************************)
AuthEmptyB == <<EmptyStr, <<11, 11, 11, 11, 11, 11, 11>>, EmptyStr, Y2019>>
AuthEmptyC == <<EmptyStr, <<12, 12, 12, 12, 12, 12, 12>>, EmptyStr, Y2019>>

EmptyPool ==
    { Rec(NoPMID, AuthABC, EmptyStr, JourJ),
      Rec(NoPMID, AuthABC, TitleAB, EmptyStr),
      Rec(NoPMID, AuthEmptyB, TitleAB, JourJ),
      Rec(NoPMID, AuthEmptyC, TitleAB, JourJ) }

IngestEmpty ==
    /\ dfOverlaps = <<>>
    /\ raised = "none"
    /\ UNCHANGED gui
    /\ \E dbName \in Tags \ DbNamesOf(dbsParsed) :
         \E rec \in EmptyPool : ExtractDb(dbName, <<rec>>)

NextEmpty ==
    \/ IngestEmpty
    \/ CombineOverlapsBegin
    \/ FindOverlapsRecord
    \/ FindOverlapsReturn
    \/ CombineOverlapsEnd

SpecEmpty == Init /\ [][NextEmpty]_vars

\* the part of two signatures by the rule: 0 when both are empty
ZeroIfBothEmpty(sOne, sTwo, part) == IF sOne = EmptyStr /\ sTwo = EmptyStr THEN 0 ELSE part

\* the score of (a, b) with 0 for the title and journal parts of two empty
\* signatures
GuardedSum(a, b) ==
    ZeroIfBothEmpty(a.titleMin, b.titleMin, TitleMinDiffWeight(a.titleMin, b.titleMin))
    + ZeroIfBothEmpty(a.journalKey, b.journalKey, JournalKeyDiffWeight(a.journalKey, b.journalKey))
    + YearDist(PopYear(a.authorKey), PopYear(b.authorKey))
    + AuthorDist(PopList(a.authorKey), PopList(b.authorKey))

\* C22: two empty signatures (title, journal or surname) add 0 to the
\* score, and the scoring ends without a ZeroDivisionError.
C22_EmptySignaturesAddZero ==
    /\ raised # "ZeroDivisionError"
    /\ \A x \in DOMAIN idToDistance : \A y \in DOMAIN idToDistance[x] :
          idToDistance[x][y] \in {GuardedSum(RecOf(x, dbsParsed), RecOf(y, dbsParsed)),
                                  GuardedSum(RecOf(y, dbsParsed), RecOf(x, dbsParsed))}

(***************************************************************************)
(* The test of line 1081 on the record whose turn it is.                   *)
(***************************************************************************)
CurTag == dbsParsed[dbCursor].dbName
CurId == DbId(CurTag, recCursor - 1)
CurRec == dbsParsed[dbCursor].procDict[recCursor]

\* a step of the record loop that does not raise
RecordStep ==
    /\ pc = "overlaps"
    /\ dbCursor <= Len(dbsParsed)
    /\ recCursor <= Len(dbsParsed[dbCursor].procDict)
    /\ pc' = "overlaps"

GroupLocals == <<matchGroupNew, globalmatchCount, idToGroup, idToSubgroup, subgroupToId, idToDistance>>

\* the group memo, the counter, the maps and the cache after the step are
\* those of st
LocalsAre(st) ==
    /\ matchGroupNew' = st.matchGroupNew
    /\ globalmatchCount' = st.globalmatchCount
    /\ idToGroup' = st.idToGroup
    /\ idToSubgroup' = st.idToSubgroup
    /\ subgroupToId' = st.subgroupToId
    /\ idToDistance' = st.idToDistance

\* lines 1082-1126 run on the record of the turn
RanAgain ==
    LocalsAre(GroupClosure(CurId, dbsParsed,
                           MatchClosure(CurId, CurRec, dbsParsed, GlobalIndex),
                           CurrentRun.st))

\* C23: a record of the source MED that has a subgroup id when its turn
\* comes is annotated with the group memo, the group counter, the subgroup
\* maps and the distance cache left as they are; for a record of any other
\* source, with a subgroup id or without, the closure, the group assignment
\* and the refinement run.
C23_SkipForMedOnly ==
    [][RecordStep =>
         IF CurTag = "MED" /\ CurId \in DOMAIN idToSubgroup
         THEN UNCHANGED GroupLocals /\ Len(records') = Len(records) + 1
         ELSE RanAgain]_vars

\* the first record of MED, ingested second, has been annotated; it had its
\* subgroup id from the seed of the first source
C23_MedRecordPassedOver ==
    /\ pc = "overlaps"
    /\ dbCursor = 2
    /\ recCursor >= 2
    /\ dbsParsed[2].dbName = "MED"
    /\ \E i \in 1..Len(dbsParsed[1].procDict) :
          DbId("MED", 0) \in Members(DbId(dbsParsed[1].dbName, i - 1))
    /\ \E i \in 1..Len(records) : records[i].Paper_ID = DbId("MED", 0)

(***************************************************************************)
(* Files ingested under a source name already ingested: main() extracts    *)
(* every path of an extractor in turn (overlapper.py 1297-1306), and the   *)
(* GUI imports a file into a view that holds one.  dbsParsed[dbName] is    *)
(* replaced (extractor.py 219) and the ids of the new rows, numbered from  *)
(* 1 again, are appended to the buckets of the global dicts.               *)
(***************************************************************************)
RECURSIVE BucketTotal(_, _)
BucketTotal(d, keys) ==
    IF keys = {} THEN 0
    ELSE LET k == CHOOSE x \in keys : TRUE
         IN  Len(d[k]) + BucketTotal(d, keys \ {k})

\* the ids appended so far: every row adds one id to the title dict
IndexedIds == BucketTotal(globalTitleMinDict, DOMAIN globalTitleMinDict)

IngestAgain ==
    /\ dfOverlaps = <<>>
    /\ raised = "none"
    /\ UNCHANGED gui
    /\ \E dbName \in Tags :
         \E rows \in SeqsUpTo(WidePool, Min2(MaxRecs, MaxIndexed - IndexedIds)) :
             rows # <<>> /\ ExtractDb(dbName, rows)

SpecReIndex == Init /\ [][IngestAgain]_vars

\* a further pass over the members found adds none
ClosedUnderPass(seed, c) ==
    ExtendPass(seed, dbsParsed, GlobalIndex,
               [todo |-> SplitKeyList(c.matchKeyDict),
                mb |-> [matchKeyDict |-> c.matchKeyDict, basisDict |-> c.basisDict],
                lenNew |-> 0]).mb.matchKeyDict = c.matchKeyDict

\* the loop ran its body once at least and not more often than there are
\* members, plus two
LoopEnds(seed, c) ==
    /\ c.passes >= 1
    /\ c.passes <= Len(c.matchKeyDict) + 2
    /\ ClosedUnderPass(seed, c)

\* C24: for every seed and every index the ingests build, the closure loop
\* of findOverlaps ends, after a number of passes bounded by the number of
\* members, and the members it ends with are those a further pass leaves
\* as they are.
C24_ClosureLoopEnds ==
    \A seed \in AllIds :
        LoopEnds(seed, MatchClosure(seed, RecOf(seed, dbsParsed), dbsParsed, GlobalIndex))

SeedAlone(seed, c) == c.matchKeyDict = <<seed>> /\ c.passes = 2

\* a seed listed twice in the bucket of its title key and with no other
\* match: the loop has ended after its second pass
C24_SeedListedTwice ==
    \E seed \in AllIds :
        /\ Cardinality({i \in 1..Len(globalTitleMinDict[RecOf(seed, dbsParsed).titleMin]) :
                          globalTitleMinDict[RecOf(seed, dbsParsed).titleMin][i] = seed}) = 2
        /\ SeedAlone(seed, MatchClosure(seed, RecOf(seed, dbsParsed), dbsParsed, GlobalIndex))

(***************************************************************************)
(* The GUI (gui.py, overlaps_thread.py).  The handlers importFile,         *)
(* clearSheet and findOverlaps run on the GUI thread, one at a time;       *)
(* OverlapsThread.run runs on a thread of its own and hands its result to  *)
(* _overlapsHandler through a queued signal.  No handler looks at the      *)
(* thread before it changes dbExtractor.                                   *)
(***************************************************************************)
GuiPool == {Rec("222", AuthABC, TitleAB, JourJ), Rec(NoPMID, AuthAAA, TitleAB, JourJ)}

\* the message of overlaps_thread.py 41-43 as the result emitted
ErrorResult == [kind |-> "str", df |-> <<>>]

\* gui.py 680-707: the file of the view is extracted and shown
importFile ==
    /\ \E dbName \in Tags :
         \E rows \in SeqsUpTo(GuiPool, Min2(MaxRecs, MaxIndexed - IndexedIds)) :
             rows # <<>> /\ ExtractDb(dbName, rows)
    /\ statusBarMsg' = "Imported file"
    /\ UNCHANGED <<overlapsThread, result, overlapsData>>

\* dbsParsed without the source dbName
DelParsed(dbDicts, dbName) == SelectSeq(dbDicts, LAMBDA db : db.dbName # dbName)

\* gui.py 617-626: del self.dbExtractor.dbsParsed[event.object.dbName]
clearSheet ==
    /\ \E dbName \in DbNamesOf(dbsParsed) : dbsParsed' = DelParsed(dbsParsed, dbName)
    /\ UNCHANGED <<globals, dfOverlaps, perSource, pc, dbCursor, recCursor, locals,
                   raised, stale, gui>>

\* gui.py 756-762: a thread is made and started
findOverlaps ==
    /\ overlapsThread + Len(result) < MaxThreads
    /\ overlapsThread' = overlapsThread + 1
    /\ UNCHANGED <<globals, dbsParsed, dfOverlaps, perSource, pc, dbCursor, recCursor,
                   locals, raised, stale, result, overlapsData, statusBarMsg>>

\* overlaps_thread.py 33-47: combineOverlaps, defined with self as its only
\* parameter (extractor.py 228), is called with the progress callback; the
\* call raises TypeError before the body runs, run() catches it and emits
\* the message
OverlapsThread_run ==
    /\ overlapsThread > 0
    /\ overlapsThread' = overlapsThread - 1
    /\ result' = Append(result, ErrorResult)
    /\ raised' = "TypeError"
    /\ UNCHANGED <<globals, dbsParsed, dfOverlaps, perSource, pc, dbCursor, recCursor,
                   locals, stale, overlapsData, statusBarMsg>>

\* gui.py 732-754 on the first result of the queue
overlapsHandler ==
    /\ result # <<>>
    /\ result' = Tail(result)
    /\ IF Head(result).kind = "DataFrame"
       THEN overlapsData' = Head(result).df /\ statusBarMsg' = "Found overlaps across databases"
       ELSE statusBarMsg' = "An erorr occurred while finding overlaps" /\ UNCHANGED overlapsData
    /\ UNCHANGED <<globals, dbsParsed, dfOverlaps, perSource, pc, dbCursor, recCursor,
                   locals, raised, stale, overlapsThread>>

NextGui ==
    \/ importFile
    \/ clearSheet
    \/ findOverlaps
    \/ OverlapsThread_run
    \/ overlapsHandler

SpecGui == Init /\ [][NextGui]_vars

\* C25: while an overlaps thread started by Find Overlaps has not handed
\* over its result, no step changes the global dicts or dbsParsed.
C25_NoMutationWhileThreadRuns ==
    [][overlapsThread > 0 => UNCHANGED <<globals, dbsParsed>>]_vars

\* C26: every result the overlaps thread emits for the handler is the
\* table of overlaps, and the status bar never shows the error message.
C26_ResultIsOverlapsTable ==
    /\ \A i \in 1..Len(result) : result[i].kind = "DataFrame"
    /\ statusBarMsg # "An erorr occurred while finding overlaps"

\* the id m is listed under its own subgroup id and under no other
ListedOnceUnderOwn(m) ==
    /\ idToSubgroup[m] \in DOMAIN subgroupToId
    /\ m \in Range(subgroupToId[idToSubgroup[m]])
    /\ \A s \in DOMAIN subgroupToId \ {idToSubgroup[m]} : m \notin Range(subgroupToId[s])

\* C27: after the refinement of a component every member is in the member
\* list of its own subgroup and in the member list of no other subgroup.
C27_SubgroupMapsConsistent ==
    \A m \in DOMAIN idToSubgroup : idToSubgroup[m] # DotSub => ListedOnceUnderOwn(m)

\* every id of the bucket names a record dbsParsed holds whose key of the
\* type is the key of the bucket, and is in the bucket once
BucketSound(bucket, key, field) ==
    \A i \in 1..Len(bucket) :
        /\ HasRec(bucket[i], dbsParsed)
        /\ RecOf(bucket[i], dbsParsed)[field] = key
        /\ \A j \in 1..Len(bucket) : j # i => bucket[j] # bucket[i]

DictSound(d, field) == \A key \in DOMAIN d : BucketSound(d[key], key, field)

\* C28: after any imports, imports into a view that holds a file, and
\* clearings, every id of a bucket of a global dict names a record that
\* dbsParsed holds, with the bucket's key as its key of that type, and is
\* listed in the bucket once.
C28_IndexNamesCurrentRecords ==
    /\ DictSound(globalPmidDict, "pmid")
    /\ DictSound(globalAuthorKeyDict, "authorKey")
    /\ DictSound(globalTitleMinDict, "titleMin")
    /\ DictSound(globalJournalKeyDict, "journalKey")

\* no row, no group in the memo, counter 0, no record with a subgroup id, no
\* subgroup but the '.' of the ungrouped records, which has no member, and
\* no stored pair score
StartsFresh ==
    /\ records = <<>>
    /\ matchGroupNew = EmptyDict
    /\ globalmatchCount = 0
    /\ idToGroup = EmptyDict
    /\ idToSubgroup = EmptyDict
    /\ \A sub \in DOMAIN subgroupToId : sub = DotSub /\ subgroupToId[sub] = <<>>
    /\ idToDistance = EmptyDict

\* C29: every step of combineOverlaps and of findOverlaps leaves the four
\* global dicts and dbsParsed as they were, and the step that enters
\* combineOverlaps leaves no row, an empty memo of the groups, counter 0,
\* empty subgroup maps (but for the member-less '.' entry) and an empty
\* distance cache.
C29_ResolveReadOnly ==
    [][ /\ (pc = "overlaps" \/ pc' = "overlaps") => UNCHANGED <<globals, dbsParsed>>
        /\ (pc = "idle" /\ pc' = "overlaps") => StartsFresh' ]_vars

\* C29 witness: combineOverlaps is entered again after a call that stored a
\* table with a grouped record, and stands before its first record.
C29_SecondResolveBegun ==
    /\ pc = "overlaps"
    /\ dbCursor = 1 /\ recCursor = 1
    /\ StartsFresh
    /\ \E i \in Rows : IsGrouped(dfOverlaps[i])

(***************************************************************************)
(* subGroupV2 run again on a component that has its subgroups.             *)
(***************************************************************************)
\* the component has a duplicate and every member has a subgroup id
AllAssigned(idList) ==
    /\ Len(idList) > 1
    /\ \A k \in 1..Len(idList) : idList[k] \in DOMAIN idToSubgroup

\* the record of the turn is of a source other than MED and the closure
\* from it finds a component all of whose members have a subgroup id
RefinedAgain == RecordStep /\ CurTag # "MED" /\ AllAssigned(IdListOf(CurId))

\* C30: when subGroupV2 runs for a record whose component has a subgroup id
\* for every member, the subgroup id of every record, the member list of
\* every subgroup and every stored pair score are afterwards what they were
\* before, in whatever order the closure lists the members.
C30_RefinementIdempotent ==
    [][RefinedAgain => UNCHANGED <<idToSubgroup, subgroupToId, idToDistance>>]_vars

\* the part of C30 on the subgroup ids and the member lists alone
C30_SubgroupsKept ==
    [][RefinedAgain => UNCHANGED <<idToSubgroup, subgroupToId>>]_vars

=============================================================================
